---- MODULE Spec2Model ----
(***************************************************************************)
(* Arch token metadata program: the instruction processor, the record      *)
(* codec and the account store it runs against.                            *)
(*                                                                         *)
(* An instruction is submitted (Submit), handled by the handler of its     *)
(* variant (Process...), and returned to the ledger (Complete).  Account   *)
(* buffers are byte arrays; a buffer is kept as its length and its bytes   *)
(* up to the last non-zero one (every byte after them is zero).  The codec *)
(* on its own packs a record into a buffer and unpacks the buffer (codec). *)
(***************************************************************************)
EXTENDS Integers, Sequences, FiniteSets, TLC

VARIABLES accounts, tx, pc, result, pre, made_immutable, codec

vars == <<accounts, tx, pc, result, pre, made_immutable, codec>>

(***************************************************************************)
(* Field caps and record sizes (state.rs).                                 *)
(***************************************************************************)
NAME_MAX_LEN == 256
SYMBOL_MAX_LEN == 16
IMAGE_MAX_LEN == 512
DESCRIPTION_MAX_LEN == 512
MAX_KEY_LENGTH == 64
MAX_VALUE_LENGTH == 240
MAX_ATTRIBUTES == 32

\* TOKEN_METADATA_MAX_LEN without the tag byte of update_authority
TokenMetadataLenWithoutTag ==
    1 + 32 + (4 + NAME_MAX_LEN) + (4 + SYMBOL_MAX_LEN) + (4 + IMAGE_MAX_LEN)
      + (4 + DESCRIPTION_MAX_LEN) + 32

TOKEN_METADATA_MAX_LEN ==
    1 + 32 + (4 + NAME_MAX_LEN) + (4 + SYMBOL_MAX_LEN) + (4 + IMAGE_MAX_LEN)
      + (4 + DESCRIPTION_MAX_LEN) + (1 + 32)

TOKEN_METADATA_ATTRIBUTES_MAX_LEN ==
    1 + 32 + 4 + (MAX_ATTRIBUTES * ((4 + MAX_KEY_LENGTH) + (4 + MAX_VALUE_LENGTH)))

METADATA_SEED == "metadata"
ATTRIBUTES_SEED == "attributes"

(***************************************************************************)
(* Public keys.  A key k stands for the 32-byte array [k; 32].             *)
(***************************************************************************)
PUBKEY_BYTES == 32
DefaultKey == 0
KeyA == 1
KeyB == 2
KeyF == 3
SystemProgram == 4
TokenProgram == 5
ProgramId == 6
OtherProgram == 7
Mint1 == 8
Mint2 == 9
Mint3 == 10
Mint4 == 11
Forged == 32
Forged2 == 33

Wallets == {KeyA, KeyB, KeyF}
Mints == {Mint1, Mint2, Mint3, Mint4}

\* Pubkey::find_program_address(&[seed, mint], program_id): a fixed injective
\* table standing for the hash; the address depends on all three inputs.
FindProgramAddress(seed, mint, program_id) ==
    [address |-> (IF seed = METADATA_SEED THEN 8 ELSE 16) + mint
                   + (IF program_id = ProgramId THEN 0 ELSE 32),
     bump |-> IF seed = METADATA_SEED THEN 255 ELSE 254]

find_metadata_pda_with_program(program_id, mint) ==
    FindProgramAddress(METADATA_SEED, mint, program_id)

find_attributes_pda_with_program(program_id, mint) ==
    FindProgramAddress(ATTRIBUTES_SEED, mint, program_id)

MetadataPdas == {find_metadata_pda_with_program(ProgramId, m).address : m \in Mints}
AttributesPdas == {find_attributes_pda_with_program(ProgramId, m).address : m \in Mints}

AccountKeys == Mints \cup MetadataPdas \cup AttributesPdas \cup {Forged, Forged2}
AllKeys == {DefaultKey} \cup Wallets \cup {SystemProgram, TokenProgram, ProgramId, OtherProgram}
             \cup AccountKeys

\* cmp_pubkeys: memcmp of the two 32-byte arrays
PubkeyBytes(k) == [i \in 1..PUBKEY_BYTES |-> k]
cmp_pubkeys(a, b) == PubkeyBytes(a) = PubkeyBytes(b)

(***************************************************************************)
(* Option values                                                           *)
(***************************************************************************)
None == [some |-> FALSE, val |-> 0]
Some(v) == [some |-> TRUE, val |-> v]
NoString == [some |-> FALSE, val |-> <<>>]

(***************************************************************************)
(* Borsh encoding                                                          *)
(***************************************************************************)
\* the length prefix written big-endian
U32Be(n) == << (n \div 16777216) % 256, (n \div 65536) % 256, (n \div 256) % 256, n % 256 >>

U32Le(n) == << n % 256, (n \div 256) % 256, (n \div 65536) % 256, (n \div 16777216) % 256 >>

BorshBool(b) == << IF b THEN 1 ELSE 0 >>
BorshString(s) == U32Le(Len(s)) \o s
BorshOptionPubkey(o) == IF o.some THEN <<1>> \o PubkeyBytes(o.val) ELSE <<0>>
BorshPair(p) == BorshString(p[1]) \o BorshString(p[2])

RECURSIVE BorshPairs(_)
BorshPairs(ps) ==
    IF ps = <<>> THEN <<>>
    ELSE IF Len(ps) = 1 THEN BorshPair(ps[1])
    ELSE LET h == Len(ps) \div 2
         IN  BorshPairs(SubSeq(ps, 1, h)) \o BorshPairs(SubSeq(ps, h + 1, Len(ps)))

\* borsh::to_vec(&TokenMetadata)
BorshTokenMetadata(md) ==
    BorshBool(md.is_initialized) \o PubkeyBytes(md.mint) \o BorshString(md.name)
      \o BorshString(md.symbol) \o BorshString(md.image) \o BorshString(md.description)
      \o BorshOptionPubkey(md.update_authority)

\* the pairs of a list without those whose key an earlier pair has
FirstOfEachKey(ps) ==
    LET keep == {i \in 1..Len(ps) : \A j \in 1..(i - 1) : ps[j][1] # ps[i][1]}
    IN  [n \in 1..Cardinality(keep) |->
            ps[CHOOSE i \in keep : Cardinality({j \in keep : j <= i}) = n]]

\* BorshTokenMetadataAttributes with the list stored as a map
BorshTokenMetadataAttributesAsMap(at) ==
    BorshBool(at.is_initialized) \o PubkeyBytes(at.mint)
      \o U32Le(Len(FirstOfEachKey(at.data))) \o BorshPairs(FirstOfEachKey(at.data))

\* BorshTokenMetadataAttributes with the mint left at its default
BorshTokenMetadataAttributesNoMint(at) ==
    BorshBool(at.is_initialized) \o PubkeyBytes(DefaultKey) \o U32Le(Len(at.data))
      \o BorshPairs(at.data)

\* borsh::to_vec(&TokenMetadataAttributes)
BorshTokenMetadataAttributes(at) ==
    BorshBool(at.is_initialized) \o PubkeyBytes(at.mint) \o U32Le(Len(at.data))
      \o BorshPairs(at.data)

(***************************************************************************)
(* Account buffers                                                         *)
(***************************************************************************)
RECURSIVE StripZeros(_)
StripZeros(bs) ==
    IF bs = <<>> THEN <<>>
    ELSE IF bs[Len(bs)] = 0 THEN StripZeros(SubSeq(bs, 1, Len(bs) - 1))
    ELSE bs

\* the buffer of n bytes whose first bytes are bs and whose other bytes are zero
Buffer(n, bs) == [len |-> n, bytes |-> StripZeros(bs)]
EmptyBuffer == Buffer(0, <<>>)

\* byte i (1-based) of a buffer, i within its length
ByteAt(buf, i) == IF i <= Len(buf.bytes) THEN buf.bytes[i] ELSE 0

\* bytes off+1 .. off+n of a buffer (off+n within its length)
Slice(buf, off, n) == [i \in 1..n |-> ByteAt(buf, off + i)]

\* the copy panics when data is longer than dst: callers check Fits first
Fits(data, dst) == Len(data) <= dst.len

\* dst[..data.len()].copy_from_slice(&data): the bytes of dst after the first
\* Len(data) stay as they are
CopyFromSlice(data, dst) ==
    Buffer(dst.len, data \o SubSeq(dst.bytes, Len(data) + 1, Len(dst.bytes)))

\* for b in &mut dst[n..] { *b = 0 }
ZeroFrom(dst, n) ==
    Buffer(dst.len, IF n < Len(dst.bytes) THEN SubSeq(dst.bytes, 1, n) ELSE dst.bytes)

\* pack_into_slice without the loop that zeroes the remainder
PackIntoSliceNoZeroFill(data, dst) == CopyFromSlice(data, dst)

\* pack_into_slice on the encoding: the copy, then the remainder zeroed
PackIntoSlice(data, dst) == ZeroFrom(CopyFromSlice(data, dst), Len(data))

\* TokenMetadata::pack_into_slice / TokenMetadataAttributes::pack_into_slice
PackTokenMetadata(md, dst) == PackIntoSlice(BorshTokenMetadata(md), dst)
PackTokenMetadataAttributes(at, dst) == PackIntoSlice(BorshTokenMetadataAttributes(at), dst)

(***************************************************************************)
(* Borsh decoding, streaming from the front of a buffer                    *)
(***************************************************************************)
U32FromLe(bs) == bs[1] + 256 * bs[2] + 65536 * bs[3] + 16777216 * bs[4]

UnknownKey == 255
PubkeyFromBytes(bs) ==
    IF bs = PubkeyBytes(bs[1]) THEN bs[1] ELSE UnknownKey

\* let x = v; ...: v is computed once and the rest runs with x bound to it
Bind(v, F(_)) == F(v)

\* each reader returns [ok, val, next]: next is the offset after what it read
ReadBool(buf, off) ==
    IF off + 1 > buf.len THEN [ok |-> FALSE, val |-> FALSE, next |-> off]
    ELSE LET b == ByteAt(buf, off + 1)
         IN  [ok |-> b \in {0, 1}, val |-> (b = 1), next |-> off + 1]

ReadPubkey(buf, off) ==
    IF off + PUBKEY_BYTES > buf.len THEN [ok |-> FALSE, val |-> DefaultKey, next |-> off]
    ELSE [ok |-> TRUE, val |-> PubkeyFromBytes(Slice(buf, off, PUBKEY_BYTES)),
          next |-> off + PUBKEY_BYTES]

ReadU32(buf, off) ==
    IF off + 4 > buf.len THEN [ok |-> FALSE, val |-> 0, next |-> off]
    ELSE [ok |-> TRUE, val |-> U32FromLe(Slice(buf, off, 4)), next |-> off + 4]

ReadString(buf, off) ==
    Bind(ReadU32(buf, off), LAMBDA n :
        IF ~n.ok \/ n.next + n.val > buf.len THEN [ok |-> FALSE, val |-> <<>>, next |-> off]
        ELSE [ok |-> TRUE, val |-> Slice(buf, n.next, n.val), next |-> n.next + n.val])

ReadOptionPubkey(buf, off) ==
    IF off + 1 > buf.len THEN [ok |-> FALSE, val |-> None, next |-> off]
    ELSE LET t == ByteAt(buf, off + 1)
         IN  IF t = 0 THEN [ok |-> TRUE, val |-> None, next |-> off + 1]
             ELSE IF t = 1
             THEN Bind(ReadPubkey(buf, off + 1), LAMBDA k :
                      [ok |-> k.ok, val |-> Some(k.val), next |-> k.next])
             ELSE [ok |-> FALSE, val |-> None, next |-> off]

\* one (key, value) pair
ReadPair(buf, off) ==
    Bind(ReadString(buf, off), LAMBDA k :
    Bind(ReadString(buf, k.next), LAMBDA v :
        IF ~k.ok \/ ~v.ok THEN [ok |-> FALSE, val |-> <<>>, next |-> off]
        ELSE [ok |-> TRUE, val |-> << <<k.val, v.val>> >>, next |-> v.next]))

\* n pairs one after the other from off on, read as the first half of them
\* and then the other half from where the first half ended
RECURSIVE ReadPairs(_, _, _)
ReadPairs(buf, off, n) ==
    IF n = 0 THEN [ok |-> TRUE, val |-> <<>>, next |-> off]
    ELSE IF n = 1 THEN ReadPair(buf, off)
    ELSE Bind(ReadPairs(buf, off, n \div 2), LAMBDA front :
             IF ~front.ok THEN [ok |-> FALSE, val |-> <<>>, next |-> off]
             ELSE Bind(ReadPairs(buf, front.next, n - (n \div 2)), LAMBDA back :
                      IF ~back.ok THEN [ok |-> FALSE, val |-> <<>>, next |-> off]
                      ELSE [ok |-> TRUE, val |-> front.val \o back.val, next |-> back.next]))

DefaultTokenMetadata ==
    [is_initialized |-> FALSE, mint |-> DefaultKey, name |-> <<>>, symbol |-> <<>>,
     image |-> <<>>, description |-> <<>>, update_authority |-> None]

DefaultTokenMetadataAttributes ==
    [is_initialized |-> FALSE, mint |-> DefaultKey, data |-> <<>>]

\* TokenMetadata::unpack_from_slice
UnpackTokenMetadataFromSlice(buf) ==
    Bind(ReadBool(buf, 0), LAMBDA i :
    Bind(ReadPubkey(buf, i.next), LAMBDA m :
    Bind(ReadString(buf, m.next), LAMBDA n :
    Bind(ReadString(buf, n.next), LAMBDA s :
    Bind(ReadString(buf, s.next), LAMBDA g :
    Bind(ReadString(buf, g.next), LAMBDA d :
    Bind(ReadOptionPubkey(buf, d.next), LAMBDA u :
        IF i.ok /\ m.ok /\ n.ok /\ s.ok /\ g.ok /\ d.ok /\ u.ok
        THEN [ok |-> TRUE,
              val |-> [is_initialized |-> i.val, mint |-> m.val, name |-> n.val,
                       symbol |-> s.val, image |-> g.val, description |-> d.val,
                       update_authority |-> u.val]]
        ELSE [ok |-> FALSE, val |-> DefaultTokenMetadata])))))))

\* TokenMetadataAttributes::unpack_from_slice
UnpackTokenMetadataAttributesFromSlice(buf) ==
    Bind(ReadBool(buf, 0), LAMBDA i :
    Bind(ReadPubkey(buf, i.next), LAMBDA m :
    Bind(ReadU32(buf, m.next), LAMBDA c :
    Bind(IF c.ok THEN ReadPairs(buf, c.next, c.val)
         ELSE [ok |-> FALSE, val |-> <<>>, next |-> 0], LAMBDA ps :
        IF i.ok /\ m.ok /\ c.ok /\ ps.ok
        THEN [ok |-> TRUE,
              val |-> [is_initialized |-> i.val, mint |-> m.val, data |-> ps.val]]
        ELSE [ok |-> FALSE, val |-> DefaultTokenMetadataAttributes]))))

\* Pack::unpack as the handlers call it: the buffer must have the record's
\* length and hold an initialized record, and every failure is mapped to
\* InvalidAccountData by the caller
UnpackTokenMetadata(buf) ==
    Bind(UnpackTokenMetadataFromSlice(buf), LAMBDA r :
        IF buf.len = TOKEN_METADATA_MAX_LEN /\ r.ok /\ r.val.is_initialized
        THEN r ELSE [ok |-> FALSE, val |-> DefaultTokenMetadata])

UnpackTokenMetadataAttributes(buf) ==
    Bind(UnpackTokenMetadataAttributesFromSlice(buf), LAMBDA r :
        IF buf.len = TOKEN_METADATA_ATTRIBUTES_MAX_LEN /\ r.ok /\ r.val.is_initialized
        THEN r ELSE [ok |-> FALSE, val |-> DefaultTokenMetadataAttributes])

(***************************************************************************)
(* Accounts.  An account is [owner, data, mint]: data is its buffer; mint  *)
(* is what apl_token's Mint::unpack returns for it (present = FALSE when   *)
(* the buffer is no Mint), the bytes of a mint being the token program's.  *)
(***************************************************************************)
NoMint == [present |-> FALSE, is_initialized |-> FALSE,
           mint_authority |-> None, freeze_authority |-> None]
MintState(init, ma, fa) == [present |-> TRUE, is_initialized |-> init,
                            mint_authority |-> ma, freeze_authority |-> fa]

\* an address nobody has created an account at
Absent == [owner |-> SystemProgram, data |-> EmptyBuffer, mint |-> NoMint]

\* AccountInfo::data.borrow_mut() written through: the account with a new buffer
WithData(accs, key, buf) == [accs EXCEPT ![key].data = buf]

\* CreateAccount leaving the new account with the system program
CreateAccountUnassigned(accs, key, space, owner) ==
    [accs EXCEPT ![key] = [owner |-> SystemProgram, data |-> Buffer(space, <<>>),
                           mint |-> NoMint]]

\* system_instruction::create_account(payer, key, lamports, space, owner)
\* invoked with the derived address's seeds: a zeroed buffer of `space` bytes
CreateAccount(accs, key, space, owner) ==
    [accs EXCEPT ![key] = [owner |-> owner, data |-> Buffer(space, <<>>), mint |-> NoMint]]

Ok == "Ok"
Return(e, accs) == [err |-> e, accs |-> accs]

(***************************************************************************)
(* Checks shared by the handlers                                           *)
(***************************************************************************)
\* Mint::unpack(&mint_info.data.borrow()).map_err(|_| InvalidAccountData)
UnpackMint(acc) ==
    [ok |-> acc.mint.present /\ acc.mint.is_initialized, val |-> acc.mint]

\* MatchedSigner with either authority of the mint accepted
MatchedSignerEitherAuthority(mint, key) ==
    IF mint.mint_authority.some /\ cmp_pubkeys(mint.mint_authority.val, key)
    THEN [ok |-> TRUE, val |-> Some(mint.mint_authority.val)]
    ELSE IF mint.freeze_authority.some /\ cmp_pubkeys(mint.freeze_authority.val, key)
    THEN [ok |-> TRUE, val |-> Some(mint.freeze_authority.val)]
    ELSE [ok |-> FALSE, val |-> None]

\* MatchedSigner without the freeze-authority fallback
MatchedSignerNoFallback(mint, key) ==
    IF mint.mint_authority.some /\ cmp_pubkeys(mint.mint_authority.val, key)
    THEN [ok |-> TRUE, val |-> Some(mint.mint_authority.val)]
    ELSE [ok |-> FALSE, val |-> None]

\* the signer matched against the mint authority, the freeze authority as fallback
MatchedSigner(mint, key) ==
    IF mint.mint_authority.some
    THEN IF cmp_pubkeys(mint.mint_authority.val, key)
         THEN [ok |-> TRUE, val |-> Some(mint.mint_authority.val)]
         ELSE [ok |-> FALSE, val |-> None]
    ELSE IF mint.freeze_authority.some
    THEN IF cmp_pubkeys(mint.freeze_authority.val, key)
         THEN [ok |-> TRUE, val |-> Some(mint.freeze_authority.val)]
         ELSE [ok |-> FALSE, val |-> None]
    ELSE [ok |-> FALSE, val |-> None]

\* AuthorityMatches with the comparison of the two keys left out
AuthorityMatchesAnySome(metadata, key) == metadata.update_authority.some

\* match metadata.update_authority { Some(a) => cmp_pubkeys(a, key), None => false }
AuthorityMatches(metadata, key) ==
    metadata.update_authority.some /\ cmp_pubkeys(metadata.update_authority.val, key)

\* FieldsWithinCaps rejecting a string of exactly the cap length
FieldsWithinCapsExclusive(name, symbol, image, description) ==
    ~ (Len(name) >= NAME_MAX_LEN \/ Len(symbol) >= SYMBOL_MAX_LEN
         \/ Len(image) >= IMAGE_MAX_LEN \/ Len(description) >= DESCRIPTION_MAX_LEN)

\* the core field caps of CreateMetadata
FieldsWithinCaps(name, symbol, image, description) ==
    ~ (Len(name) > NAME_MAX_LEN \/ Len(symbol) > SYMBOL_MAX_LEN
         \/ Len(image) > IMAGE_MAX_LEN \/ Len(description) > DESCRIPTION_MAX_LEN)

\* the caps of UpdateMetadata, name first: Ok or the first failure
ValidateOptionalFields(name, symbol, image, description) ==
    IF name.some /\ Len(name.val) > NAME_MAX_LEN THEN "StringTooLong"
    ELSE IF symbol.some /\ Len(symbol.val) > SYMBOL_MAX_LEN THEN "StringTooLong"
    ELSE IF image.some /\ Len(image.val) > IMAGE_MAX_LEN THEN "StringTooLong"
    ELSE IF description.some /\ Len(description.val) > DESCRIPTION_MAX_LEN THEN "StringTooLong"
    ELSE Ok

\* ValidatePairs looking at the first pair only
ValidatePairsHeadOnly(ps) ==
    IF ps = <<>> THEN Ok
    ELSE IF Len(Head(ps)[1]) = 0 \/ Len(Head(ps)[2]) = 0 THEN "InvalidInstructionData"
    ELSE IF Len(Head(ps)[1]) > MAX_KEY_LENGTH \/ Len(Head(ps)[2]) > MAX_VALUE_LENGTH
    THEN "StringTooLong"
    ELSE Ok

\* the two checks of the loop body on one pair
ValidatePair(p) ==
    IF Len(p[1]) = 0 \/ Len(p[2]) = 0 THEN "InvalidInstructionData"
    ELSE IF Len(p[1]) > MAX_KEY_LENGTH \/ Len(p[2]) > MAX_VALUE_LENGTH THEN "StringTooLong"
    ELSE Ok

\* for (k, v) in &data: the first pair that fails decides (the front half of
\* the list is gone through before the back half)
RECURSIVE ValidatePairs(_)
ValidatePairs(ps) ==
    IF ps = <<>> THEN Ok
    ELSE IF Len(ps) = 1 THEN ValidatePair(ps[1])
    ELSE Bind(ValidatePairs(SubSeq(ps, 1, Len(ps) \div 2)), LAMBDA front :
             IF front # Ok THEN front
             ELSE ValidatePairs(SubSeq(ps, (Len(ps) \div 2) + 1, Len(ps))))

\* ValidateAttributes refusing the empty list
ValidateAttributesNonEmpty(data) ==
    IF Len(data) > MAX_ATTRIBUTES THEN "TooManyAttributes"
    ELSE IF data = <<>> THEN "InvalidInstructionData"
    ELSE ValidatePairs(data)

ValidateAttributes(data) ==
    IF Len(data) > MAX_ATTRIBUTES THEN "TooManyAttributes" ELSE ValidatePairs(data)

\* AlreadyInitialized with the init byte never looked at
AlreadyInitializedUnchecked(buf) == buf.len = 0

\* !data_ref.is_empty() && data_ref[0] != 0
AlreadyInitialized(buf) == buf.len # 0 /\ ByteAt(buf, 1) # 0

\* record.pack_into_slice(&mut info.data.borrow_mut()); the copy panics when the
\* encoding is longer than the buffer
WriteRecord(accs, key, data) ==
    IF Fits(data, accs[key].data)
    THEN Return(Ok, WithData(accs, key, PackIntoSlice(data, accs[key].data)))
    ELSE Return("Panic", accs)

(***************************************************************************)
(* The six handlers.  Each returns [err, accs]: the error (or Ok) and the  *)
(* account store as the handler leaves it, checks in the order of the code.*)
(* t is the instruction: its accounts by position, signer flags, payload.  *)
(***************************************************************************)
\* NewTokenMetadata with the immutable flag ignored
NewTokenMetadataAlwaysMutable(t, matched_signer) ==
    [is_initialized |-> TRUE, mint |-> t.mint, name |-> t.name, symbol |-> t.symbol,
     image |-> t.image, description |-> t.description, update_authority |-> matched_signer]

\* the record CreateMetadata writes
NewTokenMetadata(t, matched_signer) ==
    [is_initialized |-> TRUE, mint |-> t.mint, name |-> t.name, symbol |-> t.symbol,
     image |-> t.image, description |-> t.description,
     update_authority |-> IF t.immutable THEN None ELSE matched_signer]

\* process_create_metadata with the already-initialized check made before the
\* field caps
process_create_metadata_exists_first(program_id, accs, t) ==
    LET mint_info == accs[t.mint]
        metadata_info == accs[t.metadata]
        mint == UnpackMint(mint_info)
        matched_signer == MatchedSigner(mint.val, t.authority)
        expected_md_pda == find_metadata_pda_with_program(program_id, t.mint).address
        created == IF metadata_info.owner # program_id
                   THEN CreateAccount(accs, t.metadata, TOKEN_METADATA_MAX_LEN, program_id)
                   ELSE accs
        metadata == NewTokenMetadata(t, matched_signer.val)
    IN  IF mint_info.owner # TokenProgram THEN Return("IncorrectProgramId", accs)
        ELSE IF ~mint.ok THEN Return("InvalidAccountData", accs)
        ELSE IF ~matched_signer.ok THEN Return("InvalidAuthority", accs)
        ELSE IF ~t.authority_signer THEN Return("InvalidAuthority", accs)
        ELSE IF ~cmp_pubkeys(expected_md_pda, t.metadata) THEN Return("InvalidSeeds", accs)
        ELSE IF metadata_info.owner = program_id /\ AlreadyInitialized(metadata_info.data)
             THEN Return("MetadataAlreadyExists", accs)
        ELSE IF ~FieldsWithinCaps(t.name, t.symbol, t.image, t.description)
             THEN Return("StringTooLong", accs)
        ELSE IF metadata_info.owner # program_id /\ t.system_program # SystemProgram
             THEN Return("IncorrectProgramId", accs)
        ELSE IF metadata_info.owner # program_id /\ ~t.payer_signer
             THEN Return("MissingRequiredSignature", accs)
        ELSE IF metadata_info.owner # program_id /\ ~t.cpi_ok
             THEN Return("CpiFailed", accs)
        ELSE WriteRecord(created, t.metadata, BorshTokenMetadata(metadata))

\* process_create_metadata without the comparison of the supplied metadata
\* address with the derived one
process_create_metadata_trusts_address(program_id, accs, t) ==
    LET mint_info == accs[t.mint]
        metadata_info == accs[t.metadata]
        mint == UnpackMint(mint_info)
        matched_signer == MatchedSigner(mint.val, t.authority)
        created == IF metadata_info.owner # program_id
                   THEN CreateAccount(accs, t.metadata, TOKEN_METADATA_MAX_LEN, program_id)
                   ELSE accs
        metadata == NewTokenMetadata(t, matched_signer.val)
    IN  IF mint_info.owner # TokenProgram THEN Return("IncorrectProgramId", accs)
        ELSE IF ~mint.ok THEN Return("InvalidAccountData", accs)
        ELSE IF ~mint.val.is_initialized THEN Return("UninitializedAccount", accs)
        ELSE IF ~matched_signer.ok THEN Return("InvalidAuthority", accs)
        ELSE IF ~t.authority_signer THEN Return("InvalidAuthority", accs)
        ELSE IF ~FieldsWithinCaps(t.name, t.symbol, t.image, t.description)
             THEN Return("StringTooLong", accs)
        ELSE IF metadata_info.owner # program_id /\ t.system_program # SystemProgram
             THEN Return("IncorrectProgramId", accs)
        ELSE IF metadata_info.owner # program_id /\ ~t.payer_signer
             THEN Return("MissingRequiredSignature", accs)
        ELSE IF metadata_info.owner # program_id /\ ~t.cpi_ok
             THEN Return("CpiFailed", accs)
        ELSE IF AlreadyInitialized(created[t.metadata].data)
             THEN Return("MetadataAlreadyExists", created)
        ELSE WriteRecord(created, t.metadata, BorshTokenMetadata(metadata))

process_create_metadata(program_id, accs, t) ==
    LET mint_info == accs[t.mint]
        metadata_info == accs[t.metadata]
        mint == UnpackMint(mint_info)
        matched_signer == MatchedSigner(mint.val, t.authority)
        expected_md_pda == find_metadata_pda_with_program(program_id, t.mint).address
        created == IF metadata_info.owner # program_id
                   THEN CreateAccount(accs, t.metadata, TOKEN_METADATA_MAX_LEN, program_id)
                   ELSE accs
        metadata == NewTokenMetadata(t, matched_signer.val)
    IN  IF mint_info.owner # TokenProgram THEN Return("IncorrectProgramId", accs)
        ELSE IF ~mint.ok THEN Return("InvalidAccountData", accs)
        ELSE IF ~mint.val.is_initialized THEN Return("UninitializedAccount", accs)
        ELSE IF ~matched_signer.ok THEN Return("InvalidAuthority", accs)
        ELSE IF ~t.authority_signer THEN Return("InvalidAuthority", accs)
        ELSE IF ~cmp_pubkeys(expected_md_pda, t.metadata) THEN Return("InvalidSeeds", accs)
        ELSE IF ~FieldsWithinCaps(t.name, t.symbol, t.image, t.description)
             THEN Return("StringTooLong", accs)
        ELSE IF metadata_info.owner # program_id /\ t.system_program # SystemProgram
             THEN Return("IncorrectProgramId", accs)
        ELSE IF metadata_info.owner # program_id /\ ~t.payer_signer
             THEN Return("MissingRequiredSignature", accs)
        ELSE IF metadata_info.owner # program_id /\ ~t.cpi_ok
             THEN Return("CpiFailed", accs)
        ELSE IF AlreadyInitialized(created[t.metadata].data)
             THEN Return("MetadataAlreadyExists", created)
        ELSE WriteRecord(created, t.metadata, BorshTokenMetadata(metadata))

\* process_update_metadata accepting the current authority of the record's mint
\* as well as the stored update authority
process_update_metadata_mint_authority(accs, t) ==
    Bind(UnpackTokenMetadata(accs[t.metadata].data), LAMBDA unpacked :
    LET old == unpacked.val
        metadata == [old EXCEPT
                       !.name = IF t.new_name.some THEN t.new_name.val ELSE @,
                       !.symbol = IF t.new_symbol.some THEN t.new_symbol.val ELSE @,
                       !.image = IF t.new_image.some THEN t.new_image.val ELSE @,
                       !.description = IF t.new_description.some
                                       THEN t.new_description.val ELSE @]
        valid == ValidateOptionalFields(t.new_name, t.new_symbol, t.new_image,
                                        t.new_description)
    IN  IF ~t.authority_signer THEN Return("MissingRequiredSignature", accs)
        ELSE IF ~unpacked.ok THEN Return("InvalidAccountData", accs)
        ELSE IF ~AuthorityMatches(old, t.authority)
                  /\ ~(old.mint \in Mints /\ MatchedSigner(accs[old.mint].mint, t.authority).ok)
             THEN Return("InvalidAuthority", accs)
        ELSE IF valid # Ok THEN Return(valid, accs)
        ELSE WriteRecord(accs, t.metadata, BorshTokenMetadata(metadata)))

\* process_update_metadata creating the record when the account holds none
process_update_metadata_upserts(accs, t) ==
    Bind(UnpackTokenMetadata(accs[t.metadata].data), LAMBDA unpacked :
    LET old == IF unpacked.ok THEN unpacked.val
               ELSE [DefaultTokenMetadata EXCEPT !.is_initialized = TRUE,
                                                 !.update_authority = Some(t.authority)]
        metadata == [old EXCEPT
                       !.name = IF t.new_name.some THEN t.new_name.val ELSE @,
                       !.symbol = IF t.new_symbol.some THEN t.new_symbol.val ELSE @,
                       !.image = IF t.new_image.some THEN t.new_image.val ELSE @,
                       !.description = IF t.new_description.some
                                       THEN t.new_description.val ELSE @]
        valid == ValidateOptionalFields(t.new_name, t.new_symbol, t.new_image,
                                        t.new_description)
        created == IF unpacked.ok THEN accs
                   ELSE CreateAccount(accs, t.metadata, TOKEN_METADATA_MAX_LEN, ProgramId)
    IN  IF ~t.authority_signer THEN Return("MissingRequiredSignature", accs)
        ELSE IF ~AuthorityMatches(old, t.authority) THEN Return("InvalidAuthority", accs)
        ELSE IF valid # Ok THEN Return(valid, accs)
        ELSE WriteRecord(created, t.metadata, BorshTokenMetadata(metadata)))

\* process_update_metadata with the supplied fields written before they are validated
process_update_metadata_write_first(accs, t) ==
    Bind(UnpackTokenMetadata(accs[t.metadata].data), LAMBDA unpacked :
    LET old == unpacked.val
        metadata == [old EXCEPT
                       !.name = IF t.new_name.some THEN t.new_name.val ELSE @,
                       !.symbol = IF t.new_symbol.some THEN t.new_symbol.val ELSE @]
        written == WriteRecord(accs, t.metadata, BorshTokenMetadata(metadata))
        valid == ValidateOptionalFields(t.new_name, t.new_symbol, t.new_image,
                                        t.new_description)
    IN  IF ~t.authority_signer THEN Return("MissingRequiredSignature", accs)
        ELSE IF ~unpacked.ok THEN Return("InvalidAccountData", accs)
        ELSE IF ~AuthorityMatches(old, t.authority) THEN Return("InvalidAuthority", accs)
        ELSE IF valid # Ok THEN Return(valid, written.accs)
        ELSE written)

\* process_update_metadata with every field that is not supplied reset to empty
process_update_metadata_resets_absent(accs, t) ==
    Bind(UnpackTokenMetadata(accs[t.metadata].data), LAMBDA unpacked :
    LET old == unpacked.val
        metadata == [old EXCEPT
                       !.name = IF t.new_name.some THEN t.new_name.val ELSE <<>>,
                       !.symbol = IF t.new_symbol.some THEN t.new_symbol.val ELSE <<>>,
                       !.image = IF t.new_image.some THEN t.new_image.val ELSE <<>>,
                       !.description = IF t.new_description.some
                                       THEN t.new_description.val ELSE <<>>]
        valid == ValidateOptionalFields(t.new_name, t.new_symbol, t.new_image,
                                        t.new_description)
    IN  IF ~t.authority_signer THEN Return("MissingRequiredSignature", accs)
        ELSE IF ~unpacked.ok THEN Return("InvalidAccountData", accs)
        ELSE IF ~AuthorityMatches(old, t.authority) THEN Return("InvalidAuthority", accs)
        ELSE IF valid # Ok THEN Return(valid, accs)
        ELSE WriteRecord(accs, t.metadata, BorshTokenMetadata(metadata)))

\* process_update_metadata with the fields validated before the authority check
process_update_metadata_fields_first(accs, t) ==
    Bind(UnpackTokenMetadata(accs[t.metadata].data), LAMBDA unpacked :
    LET old == unpacked.val
        metadata == [old EXCEPT
                       !.name = IF t.new_name.some THEN t.new_name.val ELSE @,
                       !.symbol = IF t.new_symbol.some THEN t.new_symbol.val ELSE @,
                       !.image = IF t.new_image.some THEN t.new_image.val ELSE @,
                       !.description = IF t.new_description.some
                                       THEN t.new_description.val ELSE @]
        valid == ValidateOptionalFields(t.new_name, t.new_symbol, t.new_image,
                                        t.new_description)
    IN  IF ~t.authority_signer THEN Return("MissingRequiredSignature", accs)
        ELSE IF ~unpacked.ok THEN Return("InvalidAccountData", accs)
        ELSE IF ~old.is_initialized THEN Return("UninitializedAccount", accs)
        ELSE IF valid # Ok THEN Return(valid, accs)
        ELSE IF ~AuthorityMatches(old, t.authority) THEN Return("InvalidAuthority", accs)
        ELSE WriteRecord(accs, t.metadata, BorshTokenMetadata(metadata)))

process_update_metadata(accs, t) ==
    Bind(UnpackTokenMetadata(accs[t.metadata].data), LAMBDA unpacked :
    LET old == unpacked.val
        metadata == [old EXCEPT
                       !.name = IF t.new_name.some THEN t.new_name.val ELSE @,
                       !.symbol = IF t.new_symbol.some THEN t.new_symbol.val ELSE @,
                       !.image = IF t.new_image.some THEN t.new_image.val ELSE @,
                       !.description = IF t.new_description.some
                                       THEN t.new_description.val ELSE @]
        valid == ValidateOptionalFields(t.new_name, t.new_symbol, t.new_image,
                                        t.new_description)
    IN  IF ~t.authority_signer THEN Return("MissingRequiredSignature", accs)
        ELSE IF ~unpacked.ok THEN Return("InvalidAccountData", accs)
        ELSE IF ~old.is_initialized THEN Return("UninitializedAccount", accs)
        ELSE IF ~AuthorityMatches(old, t.authority) THEN Return("InvalidAuthority", accs)
        ELSE IF valid # Ok THEN Return(valid, accs)
        ELSE WriteRecord(accs, t.metadata, BorshTokenMetadata(metadata)))

\* process_create_attributes without the comparison of metadata.mint with the mint
process_create_attributes_any_mint(program_id, accs, t) ==
    Bind(UnpackTokenMetadata(accs[t.metadata].data), LAMBDA unpacked :
    LET attributes_info == accs[t.attributes]
        expected_attrs_pda == find_attributes_pda_with_program(program_id, t.mint).address
        metadata == unpacked.val
        valid == ValidateAttributes(t.data)
        created == IF attributes_info.owner # program_id
                   THEN CreateAccount(accs, t.attributes,
                                      TOKEN_METADATA_ATTRIBUTES_MAX_LEN, program_id)
                   ELSE accs
        attrs == [is_initialized |-> TRUE, mint |-> t.mint, data |-> t.data]
    IN  IF ~t.payer_signer \/ ~t.authority_signer
        THEN Return("MissingRequiredSignature", accs)
        ELSE IF ~cmp_pubkeys(expected_attrs_pda, t.attributes) THEN Return("InvalidSeeds", accs)
        ELSE IF ~unpacked.ok THEN Return("InvalidAccountData", accs)
        ELSE IF ~metadata.is_initialized THEN Return("InvalidAccountData", accs)
        ELSE IF ~AuthorityMatches(metadata, t.authority) THEN Return("InvalidAuthority", accs)
        ELSE IF valid # Ok THEN Return(valid, accs)
        ELSE IF attributes_info.owner # program_id /\ t.system_program # SystemProgram
             THEN Return("IncorrectProgramId", accs)
        ELSE IF attributes_info.owner # program_id /\ ~t.payer_signer
             THEN Return("MissingRequiredSignature", accs)
        ELSE IF attributes_info.owner # program_id /\ ~t.cpi_ok
             THEN Return("CpiFailed", accs)
        ELSE IF attributes_info.owner = program_id
                  /\ attributes_info.data.len # TOKEN_METADATA_ATTRIBUTES_MAX_LEN
             THEN Return("InvalidAccountData", accs)
        ELSE IF AlreadyInitialized(created[t.attributes].data)
             THEN Return("MetadataAlreadyExists", created)
        ELSE WriteRecord(created, t.attributes, BorshTokenMetadataAttributes(attrs)))

process_create_attributes(program_id, accs, t) ==
    Bind(UnpackTokenMetadata(accs[t.metadata].data), LAMBDA unpacked :
    LET attributes_info == accs[t.attributes]
        expected_attrs_pda == find_attributes_pda_with_program(program_id, t.mint).address
        metadata == unpacked.val
        valid == ValidateAttributes(t.data)
        created == IF attributes_info.owner # program_id
                   THEN CreateAccount(accs, t.attributes,
                                      TOKEN_METADATA_ATTRIBUTES_MAX_LEN, program_id)
                   ELSE accs
        attrs == [is_initialized |-> TRUE, mint |-> t.mint, data |-> t.data]
    IN  IF ~t.payer_signer \/ ~t.authority_signer
        THEN Return("MissingRequiredSignature", accs)
        ELSE IF ~cmp_pubkeys(expected_attrs_pda, t.attributes) THEN Return("InvalidSeeds", accs)
        ELSE IF ~unpacked.ok THEN Return("InvalidAccountData", accs)
        ELSE IF ~metadata.is_initialized \/ ~cmp_pubkeys(metadata.mint, t.mint)
             THEN Return("InvalidAccountData", accs)
        ELSE IF ~AuthorityMatches(metadata, t.authority) THEN Return("InvalidAuthority", accs)
        ELSE IF valid # Ok THEN Return(valid, accs)
        ELSE IF attributes_info.owner # program_id /\ t.system_program # SystemProgram
             THEN Return("IncorrectProgramId", accs)
        ELSE IF attributes_info.owner # program_id /\ ~t.payer_signer
             THEN Return("MissingRequiredSignature", accs)
        ELSE IF attributes_info.owner # program_id /\ ~t.cpi_ok
             THEN Return("CpiFailed", accs)
        ELSE IF attributes_info.owner = program_id
                  /\ attributes_info.data.len # TOKEN_METADATA_ATTRIBUTES_MAX_LEN
             THEN Return("InvalidAccountData", accs)
        ELSE IF AlreadyInitialized(created[t.attributes].data)
             THEN Return("MetadataAlreadyExists", created)
        ELSE WriteRecord(created, t.attributes, BorshTokenMetadataAttributes(attrs)))

\* process_replace_attributes appending the supplied pairs to the stored list
process_replace_attributes_merges(program_id, accs, t) ==
    Bind(UnpackTokenMetadata(accs[t.metadata].data), LAMBDA unpacked :
    Bind(UnpackTokenMetadataAttributes(accs[t.attributes].data), LAMBDA unpacked_attrs :
    LET metadata == unpacked.val
        expected_attrs_pda ==
            find_attributes_pda_with_program(program_id, metadata.mint).address
        valid == ValidateAttributes(t.data)
        attrs == [unpacked_attrs.val EXCEPT !.data = @ \o t.data]
    IN  IF ~t.authority_signer THEN Return("MissingRequiredSignature", accs)
        ELSE IF ~unpacked.ok THEN Return("InvalidAccountData", accs)
        ELSE IF ~AuthorityMatches(metadata, t.authority) THEN Return("InvalidAuthority", accs)
        ELSE IF ~cmp_pubkeys(expected_attrs_pda, t.attributes) THEN Return("InvalidSeeds", accs)
        ELSE IF ~unpacked_attrs.ok THEN Return("InvalidAccountData", accs)
        ELSE IF valid # Ok THEN Return(valid, accs)
        ELSE WriteRecord(accs, t.attributes, BorshTokenMetadataAttributes(attrs))))

\* process_replace_attributes storing the default record for an empty list
process_replace_attributes_deletes_empty(program_id, accs, t) ==
    Bind(UnpackTokenMetadata(accs[t.metadata].data), LAMBDA unpacked :
    Bind(UnpackTokenMetadataAttributes(accs[t.attributes].data), LAMBDA unpacked_attrs :
    LET metadata == unpacked.val
        expected_attrs_pda ==
            find_attributes_pda_with_program(program_id, metadata.mint).address
        valid == ValidateAttributes(t.data)
        attrs == IF t.data = <<>> THEN DefaultTokenMetadataAttributes
                 ELSE [unpacked_attrs.val EXCEPT !.data = t.data]
    IN  IF ~t.authority_signer THEN Return("MissingRequiredSignature", accs)
        ELSE IF ~unpacked.ok THEN Return("InvalidAccountData", accs)
        ELSE IF ~metadata.is_initialized THEN Return("UninitializedAccount", accs)
        ELSE IF ~AuthorityMatches(metadata, t.authority) THEN Return("InvalidAuthority", accs)
        ELSE IF ~cmp_pubkeys(expected_attrs_pda, t.attributes) THEN Return("InvalidSeeds", accs)
        ELSE IF ~unpacked_attrs.ok THEN Return("InvalidAccountData", accs)
        ELSE IF ~unpacked_attrs.val.is_initialized THEN Return("UninitializedAccount", accs)
        ELSE IF valid # Ok THEN Return(valid, accs)
        ELSE WriteRecord(accs, t.attributes, BorshTokenMetadataAttributes(attrs))))

process_replace_attributes(program_id, accs, t) ==
    Bind(UnpackTokenMetadata(accs[t.metadata].data), LAMBDA unpacked :
    Bind(UnpackTokenMetadataAttributes(accs[t.attributes].data), LAMBDA unpacked_attrs :
    LET metadata == unpacked.val
        expected_attrs_pda ==
            find_attributes_pda_with_program(program_id, metadata.mint).address
        valid == ValidateAttributes(t.data)
        attrs == [unpacked_attrs.val EXCEPT !.data = t.data]
    IN  IF ~t.authority_signer THEN Return("MissingRequiredSignature", accs)
        ELSE IF ~unpacked.ok THEN Return("InvalidAccountData", accs)
        ELSE IF ~metadata.is_initialized THEN Return("UninitializedAccount", accs)
        ELSE IF ~AuthorityMatches(metadata, t.authority) THEN Return("InvalidAuthority", accs)
        ELSE IF ~cmp_pubkeys(expected_attrs_pda, t.attributes) THEN Return("InvalidSeeds", accs)
        ELSE IF ~unpacked_attrs.ok THEN Return("InvalidAccountData", accs)
        ELSE IF ~unpacked_attrs.val.is_initialized THEN Return("UninitializedAccount", accs)
        ELSE IF valid # Ok THEN Return(valid, accs)
        ELSE WriteRecord(accs, t.attributes, BorshTokenMetadataAttributes(attrs))))

\* process_transfer_authority with an immutable record accepted
process_transfer_authority_from_none(accs, t) ==
    Bind(UnpackTokenMetadata(accs[t.metadata].data), LAMBDA unpacked :
    LET old == unpacked.val
        metadata == [old EXCEPT !.update_authority = Some(t.new_authority)]
    IN  IF ~t.authority_signer THEN Return("MissingRequiredSignature", accs)
        ELSE IF ~unpacked.ok THEN Return("InvalidAccountData", accs)
        ELSE IF old.update_authority.some /\ ~AuthorityMatches(old, t.authority)
             THEN Return("InvalidAuthority", accs)
        ELSE WriteRecord(accs, t.metadata, BorshTokenMetadata(metadata)))

\* process_transfer_authority without the is_signer check
process_transfer_authority_unsigned(accs, t) ==
    Bind(UnpackTokenMetadata(accs[t.metadata].data), LAMBDA unpacked :
    LET old == unpacked.val
        metadata == [old EXCEPT !.update_authority = Some(t.new_authority)]
    IN  IF ~unpacked.ok THEN Return("InvalidAccountData", accs)
        ELSE IF ~AuthorityMatches(old, t.authority) THEN Return("InvalidAuthority", accs)
        ELSE WriteRecord(accs, t.metadata, BorshTokenMetadata(metadata)))

\* process_transfer_authority refusing the all-zero key as new authority
process_transfer_authority_checked(accs, t) ==
    Bind(UnpackTokenMetadata(accs[t.metadata].data), LAMBDA unpacked :
    LET old == unpacked.val
        metadata == [old EXCEPT !.update_authority = Some(t.new_authority)]
    IN  IF ~t.authority_signer THEN Return("MissingRequiredSignature", accs)
        ELSE IF ~unpacked.ok THEN Return("InvalidAccountData", accs)
        ELSE IF ~AuthorityMatches(old, t.authority) THEN Return("InvalidAuthority", accs)
        ELSE IF cmp_pubkeys(t.new_authority, DefaultKey)
             THEN Return("InvalidInstructionData", accs)
        ELSE WriteRecord(accs, t.metadata, BorshTokenMetadata(metadata)))

process_transfer_authority(accs, t) ==
    Bind(UnpackTokenMetadata(accs[t.metadata].data), LAMBDA unpacked :
    LET old == unpacked.val
        metadata == [old EXCEPT !.update_authority = Some(t.new_authority)]
    IN  IF ~t.authority_signer THEN Return("MissingRequiredSignature", accs)
        ELSE IF ~unpacked.ok THEN Return("InvalidAccountData", accs)
        ELSE IF ~old.is_initialized THEN Return("UninitializedAccount", accs)
        ELSE IF ~AuthorityMatches(old, t.authority) THEN Return("InvalidAuthority", accs)
        ELSE WriteRecord(accs, t.metadata, BorshTokenMetadata(metadata)))

\* process_make_immutable writing a fresh record that keeps the mint only
process_make_immutable_fresh_record(accs, t) ==
    Bind(UnpackTokenMetadata(accs[t.metadata].data), LAMBDA unpacked :
    LET old == unpacked.val
        metadata == [DefaultTokenMetadata EXCEPT !.is_initialized = TRUE, !.mint = old.mint]
    IN  IF ~t.authority_signer THEN Return("MissingRequiredSignature", accs)
        ELSE IF ~unpacked.ok THEN Return("InvalidAccountData", accs)
        ELSE IF ~AuthorityMatches(old, t.authority) THEN Return("InvalidAuthority", accs)
        ELSE WriteRecord(accs, t.metadata, BorshTokenMetadata(metadata)))

\* process_make_immutable succeeding again on a record that is already immutable
process_make_immutable_idempotent(accs, t) ==
    Bind(UnpackTokenMetadata(accs[t.metadata].data), LAMBDA unpacked :
    LET old == unpacked.val
        metadata == [old EXCEPT !.update_authority = None]
    IN  IF ~t.authority_signer THEN Return("MissingRequiredSignature", accs)
        ELSE IF ~unpacked.ok THEN Return("InvalidAccountData", accs)
        ELSE IF old.update_authority.some /\ ~AuthorityMatches(old, t.authority)
             THEN Return("InvalidAuthority", accs)
        ELSE WriteRecord(accs, t.metadata, BorshTokenMetadata(metadata)))

\* process_make_immutable accepting any signer while the record has an authority
process_make_immutable_any_signer(accs, t) ==
    Bind(UnpackTokenMetadata(accs[t.metadata].data), LAMBDA unpacked :
    LET old == unpacked.val
        metadata == [old EXCEPT !.update_authority = None]
    IN  IF ~t.authority_signer THEN Return("MissingRequiredSignature", accs)
        ELSE IF ~unpacked.ok THEN Return("InvalidAccountData", accs)
        ELSE IF ~old.update_authority.some THEN Return("InvalidAuthority", accs)
        ELSE WriteRecord(accs, t.metadata, BorshTokenMetadata(metadata)))

process_make_immutable(accs, t) ==
    Bind(UnpackTokenMetadata(accs[t.metadata].data), LAMBDA unpacked :
    LET old == unpacked.val
        metadata == [old EXCEPT !.update_authority = None]
    IN  IF ~t.authority_signer THEN Return("MissingRequiredSignature", accs)
        ELSE IF ~unpacked.ok THEN Return("InvalidAccountData", accs)
        ELSE IF ~old.is_initialized THEN Return("UninitializedAccount", accs)
        ELSE IF ~AuthorityMatches(old, t.authority) THEN Return("InvalidAuthority", accs)
        ELSE WriteRecord(accs, t.metadata, BorshTokenMetadata(metadata)))

(***************************************************************************)
(* Instructions offered to the program.                                    *)
(***************************************************************************)
OverCap == 1      \* how far past its cap a too-long string or list goes
MaxPairs == 2     \* the longest valid attribute list offered

Repeat(c, n) == [i \in 1..n |-> c]

NameA == <<78>>
NameB == <<79, 79>>
SymbolA == <<83>>
SymbolB == <<84, 84>>
ImageA == <<105>>
ImageB == <<106, 106>>
DescriptionA == <<100>>
DescriptionB == <<101, 101>>
LongName == Repeat(78, NAME_MAX_LEN + OverCap)
KeyStrA == <<107>>
KeyStrB == <<108, 108>>
ValueStr(i) == <<118, 48 + i>>

\* n pairs under one key (a list with duplicate keys when n > 1)
AttrList(n) == [i \in 1..n |-> <<KeyStrA, ValueStr(i)>>]
OtherList == << <<KeyStrB, ValueStr(0)>> >>
ValidLists == {AttrList(n) : n \in 0..MaxPairs} \cup {OtherList}
InvalidLists ==
    { << <<KeyStrA, ValueStr(1)>>, << <<>>, ValueStr(1)>> >>,
      << <<KeyStrA, <<>> >> >>,
      << <<Repeat(107, MAX_KEY_LENGTH + OverCap), ValueStr(1)>> >>,
      << <<KeyStrA, Repeat(118, MAX_VALUE_LENGTH + OverCap)>> >>,
      Repeat(<<KeyStrA, ValueStr(1)>>, MAX_ATTRIBUTES + OverCap) }

Md(m) == find_metadata_pda_with_program(ProgramId, m).address
At(m) == find_attributes_pda_with_program(ProgramId, m).address

NoTx ==
    [op |-> "None", payer |-> KeyA, payer_signer |-> FALSE, system_program |-> SystemProgram,
     mint |-> Mint1, metadata |-> Md(Mint1), attributes |-> At(Mint1),
     authority |-> KeyA, authority_signer |-> FALSE,
     name |-> <<>>, symbol |-> <<>>, image |-> <<>>, description |-> <<>>,
     immutable |-> FALSE,
     new_name |-> NoString, new_symbol |-> NoString, new_image |-> NoString,
     new_description |-> NoString,
     data |-> <<>>, new_authority |-> DefaultKey, cpi_ok |-> TRUE]

\* who is named as authority, signing or not
Authorities == Wallets \X BOOLEAN
Signing == {<<w, TRUE>> : w \in Wallets}

\* what account creation meets: <<payer signed, system program account, CPI succeeds>>
CreationOk == <<TRUE, SystemProgram, TRUE>>
Creations == {CreationOk, <<FALSE, SystemProgram, TRUE>>, <<TRUE, OtherProgram, TRUE>>,
              <<TRUE, SystemProgram, FALSE>>}

CreateMetadataTx(mint, metadata, a, c, name, immutable) ==
    [NoTx EXCEPT !.op = "CreateMetadata", !.mint = mint, !.metadata = metadata,
                 !.authority = a[1], !.authority_signer = a[2],
                 !.payer_signer = c[1], !.system_program = c[2], !.cpi_ok = c[3],
                 !.name = name, !.symbol = SymbolA, !.image = ImageA,
                 !.description = DescriptionA, !.immutable = immutable]

CreateMetadataTxs ==
    {CreateMetadataTx(Mint1, Md(Mint1), a, c, n, i) :
        a \in Authorities, c \in Creations, n \in {NameA, LongName}, i \in BOOLEAN}
    \cup {CreateMetadataTx(Mint1, md, a, CreationOk, NameA, FALSE) :
        md \in {Md(Mint2), Forged}, a \in Signing}
    \cup {CreateMetadataTx(Mint2, Md(Mint2), a, CreationOk, NameA, FALSE) : a \in Authorities}
    \cup {CreateMetadataTx(m, Md(m), a, CreationOk, NameA, FALSE) :
        m \in {Mint3, Mint4}, a \in Signing}
    \cup {CreateMetadataTx(Forged, Md(Mint1), <<KeyB, TRUE>>, CreationOk, NameA, FALSE)}

UpdateMetadataTx(metadata, a, name, symbol) ==
    [NoTx EXCEPT !.op = "UpdateMetadata", !.metadata = metadata,
                 !.authority = a[1], !.authority_signer = a[2],
                 !.new_name = name, !.new_symbol = symbol]

\* an update that also supplies image and description
UpdateAllFieldsTx(metadata, a, name, symbol, image, description) ==
    [UpdateMetadataTx(metadata, a, name, symbol) EXCEPT
        !.new_image = image, !.new_description = description]

\* the fields after the name an update supplies: none, all three, the image alone
OtherFields == {<<NoString, NoString, NoString>>,
                <<Some(SymbolB), Some(ImageB), Some(DescriptionB)>>}
ImageOnly == <<NoString, Some(ImageB), NoString>>

UpdateMetadataTxs ==
    {UpdateAllFieldsTx(Md(Mint1), a, n, f[1], f[2], f[3]) :
        a \in Authorities, n \in {NoString, Some(NameB), Some(LongName)},
        f \in OtherFields}
    \cup {UpdateAllFieldsTx(Md(Mint1), a, NoString, ImageOnly[1], ImageOnly[2], ImageOnly[3]) :
        a \in Signing}
    \cup {UpdateMetadataTx(md, a, Some(NameB), NoString) :
        md \in {Md(Mint2), At(Mint1)}, a \in {<<KeyA, TRUE>>, <<KeyF, FALSE>>}}
    \cup {UpdateMetadataTx(Forged, a, NoString, NoString) : a \in {<<KeyA, TRUE>>, <<KeyB, TRUE>>}}
    \cup {UpdateMetadataTx(Md(Mint1), <<KeyA, TRUE>>, Some(NameA), NoString)}

TransferAuthorityTx(metadata, a, new_authority) ==
    [NoTx EXCEPT !.op = "TransferAuthority", !.metadata = metadata,
                 !.authority = a[1], !.authority_signer = a[2],
                 !.new_authority = new_authority]

TransferAuthorityTxs ==
    {TransferAuthorityTx(Md(Mint1), a, k) : a \in Authorities, k \in {KeyA, KeyB}}
    \cup {TransferAuthorityTx(Md(Mint1), a, DefaultKey) : a \in Signing}
    \cup {TransferAuthorityTx(Md(Mint2), a, KeyA) : a \in {<<KeyA, TRUE>>, <<KeyF, FALSE>>}}
    \cup {TransferAuthorityTx(Forged, <<KeyB, TRUE>>, KeyB)}
    \cup {TransferAuthorityTx(Mint1, <<KeyA, TRUE>>, KeyB)}

MakeImmutableTx(metadata, a) ==
    [NoTx EXCEPT !.op = "MakeImmutable", !.metadata = metadata,
                 !.authority = a[1], !.authority_signer = a[2]]

MakeImmutableTxs ==
    {MakeImmutableTx(Md(Mint1), a) : a \in Authorities}
    \cup {MakeImmutableTx(Md(Mint2), a) : a \in {<<KeyA, TRUE>>, <<KeyF, FALSE>>}}
    \cup {MakeImmutableTx(At(Mint1), <<KeyA, TRUE>>)}

CreateAttributesTx(mint, attributes, metadata, a, c, data) ==
    [NoTx EXCEPT !.op = "CreateAttributes", !.mint = mint, !.attributes = attributes,
                 !.metadata = metadata, !.authority = a[1], !.authority_signer = a[2],
                 !.payer_signer = c[1], !.system_program = c[2], !.cpi_ok = c[3],
                 !.data = data]

CreateAttributesTxs ==
    {CreateAttributesTx(Mint1, At(Mint1), Md(Mint1), a, c, AttrList(1)) :
        a \in Authorities, c \in Creations}
    \cup {CreateAttributesTx(Mint1, At(Mint1), Md(Mint1), a, CreationOk, d) :
        a \in Authorities, d \in ValidLists \cup InvalidLists}
    \cup {CreateAttributesTx(m, at, md, a, CreationOk, AttrList(1)) :
        m \in {Mint1, Mint2}, at \in {At(Mint1), At(Mint2)},
        md \in {Md(Mint1), Md(Mint2), Forged}, a \in Signing}

ReplaceAttributesTx(attributes, metadata, a, data) ==
    [NoTx EXCEPT !.op = "ReplaceAttributes", !.attributes = attributes,
                 !.metadata = metadata, !.authority = a[1], !.authority_signer = a[2],
                 !.data = data]

ReplaceAttributesTxs ==
    {ReplaceAttributesTx(At(Mint1), Md(Mint1), a, d) :
        a \in Authorities, d \in ValidLists \cup InvalidLists}
    \cup {ReplaceAttributesTx(at, md, a, OtherList) :
        at \in {At(Mint1), At(Mint2)}, md \in {Md(Mint1), Md(Mint2), Forged},
        a \in Signing}
    \cup {ReplaceAttributesTx(At(Mint2), Forged2, <<KeyA, TRUE>>, OtherList)}

Txs == CreateMetadataTxs \cup UpdateMetadataTxs \cup TransferAuthorityTxs
         \cup MakeImmutableTxs \cup CreateAttributesTxs \cup ReplaceAttributesTxs

(***************************************************************************)
(* Instructions at the caps: strings and lists that are short, of exactly  *)
(* the cap, and OverCap past it, signed by Mint1's authority KeyA.         *)
(***************************************************************************)
FieldCaps == <<NAME_MAX_LEN, SYMBOL_MAX_LEN, IMAGE_MAX_LEN, DESCRIPTION_MAX_LEN>>
FieldChars == <<78, 83, 105, 100>>

\* the lengths of the four strings of a CreateMetadata: all short; one field at
\* its cap or past it; all four at their caps or past them
CreateLengths ==
    {[f \in 1..4 |-> 1]}
    \cup {[[f \in 1..4 |-> 1] EXCEPT ![g] = FieldCaps[g] + o] : g \in 1..4, o \in {0, OverCap}}
    \cup {[f \in 1..4 |-> FieldCaps[f] + o] : o \in {0, OverCap}}

\* the same for UpdateMetadata, length 0 standing for a field that is not supplied
UpdateLengths ==
    {[f \in 1..4 |-> 0]}
    \cup {[[f \in 1..4 |-> 0] EXCEPT ![g] = FieldCaps[g] + o] : g \in 1..4, o \in {0, OverCap}}
    \cup {[f \in 1..4 |-> FieldCaps[f] + o] : o \in {0, OverCap}}

FieldOfLength(f, l) == Repeat(FieldChars[f], l)
OptionalField(f, l) == IF l = 0 THEN NoString ELSE Some(FieldOfLength(f, l))

CreateWithLengthsTx(a, l) ==
    [CreateMetadataTx(Mint1, Md(Mint1), a, CreationOk, FieldOfLength(1, l[1]), FALSE) EXCEPT
        !.symbol = FieldOfLength(2, l[2]), !.image = FieldOfLength(3, l[3]),
        !.description = FieldOfLength(4, l[4])]

UpdateWithLengthsTx(a, l) ==
    UpdateAllFieldsTx(Md(Mint1), a, OptionalField(1, l[1]), OptionalField(2, l[2]),
                      OptionalField(3, l[3]), OptionalField(4, l[4]))

\* a pair with a key of kl bytes and a value of vl bytes
PairOfLengths(kl, vl) == <<Repeat(107, kl), Repeat(118, vl)>>
ShortPair == PairOfLengths(1, 1)
BadPairs == {PairOfLengths(0, 1), PairOfLengths(1, 0), PairOfLengths(0, MAX_VALUE_LENGTH + OverCap),
             PairOfLengths(MAX_KEY_LENGTH + OverCap, 1),
             PairOfLengths(1, MAX_VALUE_LENGTH + OverCap)}

\* three pairs, the one at position p bad
BadAt(p, bad) == [i \in 1..3 |-> IF i = p THEN bad ELSE ShortPair]

CapLists ==
    {<<>>, <<PairOfLengths(MAX_KEY_LENGTH, MAX_VALUE_LENGTH)>>,
     Repeat(ShortPair, MAX_ATTRIBUTES),
     Repeat(PairOfLengths(MAX_KEY_LENGTH, MAX_VALUE_LENGTH), MAX_ATTRIBUTES),
     Repeat(ShortPair, MAX_ATTRIBUTES + OverCap),
     Repeat(PairOfLengths(0, 1), MAX_ATTRIBUTES + OverCap),
     <<PairOfLengths(MAX_KEY_LENGTH + OverCap, 1), PairOfLengths(0, 1)>>,
     <<PairOfLengths(2, 1), ShortPair, PairOfLengths(2, 1)>>,
     <<ShortPair, PairOfLengths(2, 1), PairOfLengths(2, 1)>>}
    \cup {BadAt(p, bad) : p \in 1..3, bad \in BadPairs}

CapTxs ==
    {CreateWithLengthsTx(<<KeyA, TRUE>>, l) : l \in CreateLengths}
    \cup {CreateWithLengthsTx(<<KeyB, TRUE>>, [f \in 1..4 |-> FieldCaps[f] + OverCap])}
    \cup {UpdateWithLengthsTx(<<KeyA, TRUE>>, l) : l \in UpdateLengths}
    \cup {UpdateWithLengthsTx(<<KeyB, TRUE>>, [f \in 1..4 |-> FieldCaps[f] + OverCap])}
    \cup {CreateAttributesTx(Mint1, At(Mint1), Md(Mint1), <<KeyA, TRUE>>, CreationOk, d) :
            d \in CapLists}
    \cup {ReplaceAttributesTx(At(Mint1), Md(Mint1), <<KeyA, TRUE>>, d) : d \in CapLists}
    \cup {TransferAuthorityTx(Md(Mint1), <<KeyA, TRUE>>, KeyB),
          TransferAuthorityTx(Md(Mint1), <<KeyB, TRUE>>, KeyA)}

(***************************************************************************)
(* The ledger before the program's first instruction: four mints of the    *)
(* token program, no metadata or attributes account yet, and two accounts  *)
(* of another program: one holding bytes that decode as Mint1's metadata   *)
(* with KeyB as update authority (and as a mint whose authority is KeyB),  *)
(* one holding bytes that decode as Mint2's metadata with KeyA as update   *)
(* authority.                                                              *)
(***************************************************************************)
ForgedMetadata ==
    [is_initialized |-> TRUE, mint |-> Mint1, name |-> NameA, symbol |-> SymbolA,
     image |-> ImageA, description |-> DescriptionA, update_authority |-> Some(KeyB)]

\* bytes that decode as Mint2's metadata with KeyA as update authority
ForgedMetadata2 ==
    [is_initialized |-> TRUE, mint |-> Mint2, name |-> NameA, symbol |-> SymbolA,
     image |-> ImageA, description |-> DescriptionA, update_authority |-> Some(KeyA)]

InitialAccounts ==
    [k \in AccountKeys |->
        CASE k = Mint1 -> [owner |-> TokenProgram, data |-> EmptyBuffer,
                           mint |-> MintState(TRUE, Some(KeyA), Some(KeyF))]
          [] k = Mint2 -> [owner |-> TokenProgram, data |-> EmptyBuffer,
                           mint |-> MintState(TRUE, None, Some(KeyF))]
          [] k = Mint3 -> [owner |-> TokenProgram, data |-> EmptyBuffer,
                           mint |-> MintState(TRUE, None, None)]
          [] k = Mint4 -> [owner |-> TokenProgram, data |-> EmptyBuffer,
                           mint |-> MintState(FALSE, None, None)]
          [] k = Forged -> [owner |-> OtherProgram,
                            data |-> Buffer(TOKEN_METADATA_MAX_LEN,
                                            BorshTokenMetadata(ForgedMetadata)),
                            mint |-> MintState(TRUE, Some(KeyB), None)]
          [] k = Forged2 -> [owner |-> OtherProgram,
                             data |-> Buffer(TOKEN_METADATA_MAX_LEN,
                                             BorshTokenMetadata(ForgedMetadata2)),
                             mint |-> NoMint]
          [] OTHER -> Absent]

\* no record is on its way through the codec
NoCodec == [stage |-> "none"]

Init ==
    /\ accounts = InitialAccounts
    /\ pre = InitialAccounts
    /\ tx = NoTx
    /\ pc = "idle"
    /\ result = "None"
    /\ made_immutable = {}
    /\ codec = NoCodec

\* an instruction arrives
Submit ==
    /\ pc = "idle"
    /\ \E t \in Txs : tx' = t
    /\ pc' = "pending"
    /\ UNCHANGED <<accounts, result, pre, made_immutable, codec>>

\* Processor::process: the handler of the instruction's variant runs
Handled(r) ==
    /\ accounts' = r.accs
    /\ result' = r.err
    /\ pre' = accounts
    /\ pc' = "done"
    /\ UNCHANGED <<tx, codec>>

\* ProcessCreateMetadata resolving the authority against the mints as they
\* were when first initialized
ProcessCreateMetadataFirstAuthority ==
    /\ pc = "pending" /\ tx.op = "CreateMetadata"
    /\ Bind(process_create_metadata(ProgramId,
                [k \in AccountKeys |-> [accounts[k] EXCEPT !.mint = InitialAccounts[k].mint]],
                tx),
            LAMBDA r : Handled(Return(r.err,
                [k \in AccountKeys |-> [r.accs[k] EXCEPT !.mint = accounts[k].mint]])))
    /\ UNCHANGED made_immutable

\* ProcessCreateMetadata creating the mint's attributes record, with an empty
\* list, along with the metadata record
ProcessCreateMetadataWithAttributes ==
    /\ pc = "pending" /\ tx.op = "CreateMetadata"
    /\ Bind(process_create_metadata(ProgramId, accounts, tx), LAMBDA r :
          Handled(IF r.err # Ok THEN r
                  ELSE WriteRecord(
                          CreateAccount(r.accs, At(tx.mint),
                                        TOKEN_METADATA_ATTRIBUTES_MAX_LEN, ProgramId),
                          At(tx.mint),
                          BorshTokenMetadataAttributes(
                              [is_initialized |-> TRUE, mint |-> tx.mint, data |-> <<>>]))))
    /\ UNCHANGED made_immutable

ProcessCreateMetadata ==
    /\ pc = "pending" /\ tx.op = "CreateMetadata"
    /\ Handled(process_create_metadata(ProgramId, accounts, tx))
    /\ UNCHANGED made_immutable

ProcessUpdateMetadata ==
    /\ pc = "pending" /\ tx.op = "UpdateMetadata"
    /\ Handled(process_update_metadata(accounts, tx))
    /\ UNCHANGED made_immutable

ProcessCreateAttributes ==
    /\ pc = "pending" /\ tx.op = "CreateAttributes"
    /\ Handled(process_create_attributes(ProgramId, accounts, tx))
    /\ UNCHANGED made_immutable

ProcessReplaceAttributes ==
    /\ pc = "pending" /\ tx.op = "ReplaceAttributes"
    /\ Handled(process_replace_attributes(ProgramId, accounts, tx))
    /\ UNCHANGED made_immutable

ProcessTransferAuthority ==
    /\ pc = "pending" /\ tx.op = "TransferAuthority"
    /\ Handled(process_transfer_authority(accounts, tx))
    /\ UNCHANGED made_immutable

ProcessMakeImmutable ==
    /\ pc = "pending" /\ tx.op = "MakeImmutable"
    /\ Handled(process_make_immutable(accounts, tx))
    /\ UNCHANGED made_immutable

\* the entrypoint returns the handler's result to the ledger; made_immutable
\* remembers the records on which a returned MakeImmutable has succeeded
Complete ==
    /\ pc = "done"
    /\ pc' = "idle"
    /\ tx' = NoTx
    /\ result' = "None"
    /\ pre' = accounts
    /\ made_immutable' = IF tx.op = "MakeImmutable" /\ result = Ok
                         THEN made_immutable \cup {tx.metadata}
                         ELSE made_immutable
    /\ UNCHANGED <<accounts, codec>>

Next ==
    \/ Submit
    \/ ProcessCreateMetadata
    \/ ProcessUpdateMetadata
    \/ ProcessCreateAttributes
    \/ ProcessReplaceAttributes
    \/ ProcessTransferAuthority
    \/ ProcessMakeImmutable
    \/ Complete

Spec == Init /\ [][Next]_vars

\* the same program offered the instructions at the caps
SubmitAtCaps ==
    /\ pc = "idle"
    /\ \E t \in CapTxs : tx' = t
    /\ pc' = "pending"
    /\ UNCHANGED <<accounts, result, pre, made_immutable, codec>>

NextAtCaps ==
    \/ SubmitAtCaps
    \/ ProcessCreateMetadata
    \/ ProcessUpdateMetadata
    \/ ProcessCreateAttributes
    \/ ProcessReplaceAttributes
    \/ ProcessTransferAuthority
    \/ Complete

CapSpec == Init /\ [][NextAtCaps]_vars

\* the program offered CreateMetadata only, next to a token program that
\* rotates mint authorities
SubmitCreateMetadata ==
    /\ pc = "idle"
    /\ \E t \in CreateMetadataTxs : tx' = t
    /\ pc' = "pending"
    /\ UNCHANGED <<accounts, result, pre, made_immutable, codec>>

\* apl_token set_authority(mint, Some(k), MintTokens, current authority): the
\* token program gives a mint that has a mint authority another one
SetAuthority ==
    /\ pc = "idle"
    /\ \E m \in Mints, k \in {KeyA, KeyB} :
          /\ accounts[m].mint.is_initialized
          /\ accounts[m].mint.mint_authority.some
          /\ accounts[m].mint.mint_authority.val # k
          /\ accounts' = [accounts EXCEPT ![m].mint.mint_authority = Some(k)]
          /\ pre' = accounts'
    /\ UNCHANGED <<tx, pc, result, made_immutable, codec>>

NextWithRotation ==
    \/ SubmitCreateMetadata
    \/ SetAuthority
    \/ ProcessCreateMetadata
    \/ Complete

RotationSpec == Init /\ [][NextWithRotation]_vars

\* the program offered the operations on Mint1's record and attributes, next
\* to a token program that rotates or clears the mint's authority
RotatedMintTxs ==
    {CreateMetadataTx(Mint1, Md(Mint1), <<a, TRUE>>, CreationOk, NameA, FALSE) : a \in Wallets}
    \cup {UpdateMetadataTx(Md(Mint1), <<a, TRUE>>, Some(NameB), NoString) : a \in Wallets}
    \cup {TransferAuthorityTx(Md(Mint1), <<a, TRUE>>, k) : a \in Wallets, k \in {KeyA, KeyB}}
    \cup {MakeImmutableTx(Md(Mint1), <<a, TRUE>>) : a \in Wallets}
    \cup {CreateAttributesTx(Mint1, At(Mint1), Md(Mint1), <<a, TRUE>>, CreationOk, AttrList(1)) :
            a \in Wallets}
    \cup {ReplaceAttributesTx(At(Mint1), Md(Mint1), <<a, TRUE>>, OtherList) : a \in Wallets}

SubmitOnRotatedMint ==
    /\ pc = "idle"
    /\ \E t \in RotatedMintTxs : tx' = t
    /\ pc' = "pending"
    /\ UNCHANGED <<accounts, result, pre, made_immutable, codec>>

\* apl_token set_authority(mint, None, MintTokens, current authority): the
\* token program takes the mint authority away for good
ClearAuthority ==
    /\ pc = "idle"
    /\ \E m \in Mints :
          /\ accounts[m].mint.is_initialized
          /\ accounts[m].mint.mint_authority.some
          /\ accounts' = [accounts EXCEPT ![m].mint.mint_authority = None]
          /\ pre' = accounts'
    /\ UNCHANGED <<tx, pc, result, made_immutable, codec>>

NextOnRotatedMint ==
    \/ SubmitOnRotatedMint
    \/ SetAuthority
    \/ ClearAuthority
    \/ ProcessCreateMetadata
    \/ ProcessUpdateMetadata
    \/ ProcessCreateAttributes
    \/ ProcessReplaceAttributes
    \/ ProcessTransferAuthority
    \/ ProcessMakeImmutable
    \/ Complete

RotatedMintSpec == Init /\ [][NextOnRotatedMint]_vars

(***************************************************************************)
(* The client SDK: the builders validate the payload and, when it passes,  *)
(* emit the instruction with the accounts in the program's order.  A       *)
(* builder returns [ok, ix]: ok = FALSE for anyhow::Error, and ix is the   *)
(* instruction it emits when ok.                                           *)
(***************************************************************************)
\* validate_metadata_fields with a string of exactly the cap length refused
validate_metadata_fields_exclusive(name, symbol, image, description) ==
    /\ Len(name) < NAME_MAX_LEN
    /\ Len(symbol) < SYMBOL_MAX_LEN
    /\ Len(image) < IMAGE_MAX_LEN
    /\ Len(description) < DESCRIPTION_MAX_LEN

validate_metadata_fields(name, symbol, image, description) ==
    /\ Len(name) <= NAME_MAX_LEN
    /\ Len(symbol) <= SYMBOL_MAX_LEN
    /\ Len(image) <= IMAGE_MAX_LEN
    /\ Len(description) <= DESCRIPTION_MAX_LEN

validate_optional_metadata_fields(name, symbol, image, description) ==
    /\ name.some => Len(name.val) <= NAME_MAX_LEN
    /\ symbol.some => Len(symbol.val) <= SYMBOL_MAX_LEN
    /\ image.some => Len(image.val) <= IMAGE_MAX_LEN
    /\ description.some => Len(description.val) <= DESCRIPTION_MAX_LEN

validate_attributes(data) ==
    /\ Len(data) <= MAX_ATTRIBUTES
    /\ \A i \in 1..Len(data) :
          /\ Len(data[i][1]) # 0 /\ Len(data[i][2]) # 0
          /\ Len(data[i][1]) <= MAX_KEY_LENGTH
          /\ Len(data[i][2]) <= MAX_VALUE_LENGTH

create_metadata_ix(program_id, params) ==
    [ok |-> validate_metadata_fields(params.name, params.symbol, params.image,
                                     params.description),
     ix |-> [NoTx EXCEPT !.op = "CreateMetadata",
                         !.payer = params.payer, !.payer_signer = TRUE,
                         !.system_program = SystemProgram,
                         !.mint = params.mint,
                         !.metadata = find_metadata_pda_with_program(program_id,
                                                                     params.mint).address,
                         !.authority = params.mint_or_freeze_authority,
                         !.authority_signer = TRUE,
                         !.name = params.name, !.symbol = params.symbol,
                         !.image = params.image, !.description = params.description,
                         !.immutable = params.immutable]]

update_metadata_ix(program_id, params) ==
    [ok |-> validate_optional_metadata_fields(params.name, params.symbol, params.image,
                                              params.description),
     ix |-> [NoTx EXCEPT !.op = "UpdateMetadata",
                         !.metadata = find_metadata_pda_with_program(program_id,
                                                                     params.mint).address,
                         !.authority = params.update_authority,
                         !.authority_signer = TRUE,
                         !.new_name = params.name, !.new_symbol = params.symbol,
                         !.new_image = params.image,
                         !.new_description = params.description]]

create_attributes_ix(program_id, params) ==
    [ok |-> validate_attributes(params.data),
     ix |-> [NoTx EXCEPT !.op = "CreateAttributes",
                         !.payer = params.payer, !.payer_signer = TRUE,
                         !.system_program = SystemProgram,
                         !.mint = params.mint,
                         !.attributes = find_attributes_pda_with_program(program_id,
                                                                         params.mint).address,
                         !.authority = params.update_authority,
                         !.authority_signer = TRUE,
                         !.metadata = find_metadata_pda_with_program(program_id,
                                                                     params.mint).address,
                         !.data = params.data]]

replace_attributes_ix(program_id, params) ==
    [ok |-> validate_attributes(params.data),
     ix |-> [NoTx EXCEPT !.op = "ReplaceAttributes",
                         !.attributes = find_attributes_pda_with_program(program_id,
                                                                         params.mint).address,
                         !.authority = params.update_authority,
                         !.authority_signer = TRUE,
                         !.metadata = find_metadata_pda_with_program(program_id,
                                                                     params.mint).address,
                         !.data = params.data]]

\* what the client asks the builders for: Mint1, its authority KeyA or the
\* stranger KeyB, strings and lists at the caps
CreateMetadataParams ==
    {[payer |-> KeyA, mint |-> Mint1, mint_or_freeze_authority |-> a,
      name |-> FieldOfLength(1, l[1]), symbol |-> FieldOfLength(2, l[2]),
      image |-> FieldOfLength(3, l[3]), description |-> FieldOfLength(4, l[4]),
      immutable |-> FALSE] : a \in {KeyA, KeyB}, l \in CreateLengths}

UpdateMetadataParams ==
    {[mint |-> Mint1, update_authority |-> a,
      name |-> OptionalField(1, l[1]), symbol |-> OptionalField(2, l[2]),
      image |-> OptionalField(3, l[3]), description |-> OptionalField(4, l[4])] :
        a \in {KeyA, KeyB}, l \in UpdateLengths}

AttributesParams ==
    {[payer |-> KeyA, mint |-> Mint1, update_authority |-> a, data |-> d] :
        a \in {KeyA, KeyB}, d \in CapLists}

Built ==
    {create_metadata_ix(ProgramId, p) : p \in CreateMetadataParams}
    \cup {update_metadata_ix(ProgramId, p) : p \in UpdateMetadataParams}
    \cup {create_attributes_ix(ProgramId, p) : p \in AttributesParams}
    \cup {replace_attributes_ix(ProgramId, p) : p \in AttributesParams}

\* a builder returns Ok(ix) and the client sends ix
SdkBuild ==
    /\ pc = "idle"
    /\ \E b \in Built : b.ok /\ tx' = b.ix
    /\ pc' = "pending"
    /\ UNCHANGED <<accounts, result, pre, made_immutable, codec>>

\* a builder returns an error: nothing is sent (tx keeps what was refused)
SdkRefuse ==
    /\ pc = "idle"
    /\ \E b \in Built : ~b.ok /\ tx' = b.ix
    /\ pc' = "refused"
    /\ UNCHANGED <<accounts, result, pre, made_immutable, codec>>

\* the client drops the refused request
SdkDiscard ==
    /\ pc = "refused"
    /\ pc' = "idle"
    /\ tx' = NoTx
    /\ UNCHANGED <<accounts, result, pre, made_immutable, codec>>

NextWithSdk ==
    \/ SdkBuild
    \/ SdkRefuse
    \/ SdkDiscard
    \/ ProcessCreateMetadata
    \/ ProcessUpdateMetadata
    \/ ProcessCreateAttributes
    \/ ProcessReplaceAttributes
    \/ Complete

SdkSpec == Init /\ [][NextWithSdk]_vars

(***************************************************************************)
(* The codec on its own: a record is packed into a buffer of the record's  *)
(* maximum size, or encoded compactly and followed by zero bytes, and the  *)
(* buffer is unpacked.                                                     *)
(***************************************************************************)
ZeroEnded == <<78, 0>>
TrailingZeros == {0, 1, 512}

MetadataRecords ==
    {[is_initialized |-> i, mint |-> m, name |-> n, symbol |-> SymbolA, image |-> g,
      description |-> d, update_authority |-> u] :
        i \in BOOLEAN, m \in {DefaultKey, Mint1},
        n \in {<<>>, ZeroEnded, Repeat(78, NAME_MAX_LEN)},
        g \in {<<>>, ImageB},
        d \in {<<0>>, Repeat(100, DESCRIPTION_MAX_LEN)},
        u \in {None, Some(KeyA), Some(DefaultKey)}}

AttributesRecords ==
    {[is_initialized |-> i, mint |-> Mint1, data |-> d] :
        i \in BOOLEAN,
        d \in {<<>>, AttrList(MaxPairs), << <<KeyStrA, <<0>> >>, <<KeyStrA, <<0>> >> >>,
               Repeat(PairOfLengths(MAX_KEY_LENGTH, MAX_VALUE_LENGTH), MAX_ATTRIBUTES)}}

IsMetadataRecord(r) == "name" \in DOMAIN r
Encoded(r) == IF IsMetadataRecord(r) THEN BorshTokenMetadata(r)
              ELSE BorshTokenMetadataAttributes(r)
RecordLen(r) == IF IsMetadataRecord(r) THEN TOKEN_METADATA_MAX_LEN
                ELSE TOKEN_METADATA_ATTRIBUTES_MAX_LEN

CodecInit ==
    /\ accounts = InitialAccounts
    /\ pre = InitialAccounts
    /\ tx = NoTx
    /\ pc = "idle"
    /\ result = "None"
    /\ made_immutable = {}
    /\ \E r \in MetadataRecords \cup AttributesRecords :
          codec = [stage |-> "record", record |-> r]

\* let mut buf = vec![..; LEN]; pack_into_slice(&r, &mut buf)
PackIntoMaxLen ==
    /\ codec.stage = "record"
    /\ codec' = [stage |-> "packed", record |-> codec.record,
                 buf |-> PackIntoSlice(Encoded(codec.record),
                                       Buffer(RecordLen(codec.record), <<>>))]
    /\ UNCHANGED <<accounts, tx, pc, result, pre, made_immutable>>

\* let mut packed = borsh::to_vec(&r); packed.extend_from_slice(&vec![0u8; z])
EncodeCompact ==
    /\ codec.stage = "record"
    /\ \E z \in TrailingZeros :
          codec' = [stage |-> "packed", record |-> codec.record,
                    buf |-> Buffer(Len(Encoded(codec.record)) + z, Encoded(codec.record))]
    /\ UNCHANGED <<accounts, tx, pc, result, pre, made_immutable>>

\* unpack_from_slice(&buf)
UnpackFromSlice ==
    /\ codec.stage = "packed"
    /\ codec' = [stage |-> "unpacked", record |-> codec.record, buf |-> codec.buf,
                 out |-> IF IsMetadataRecord(codec.record)
                         THEN UnpackTokenMetadataFromSlice(codec.buf)
                         ELSE UnpackTokenMetadataAttributesFromSlice(codec.buf)]
    /\ UNCHANGED <<accounts, tx, pc, result, pre, made_immutable>>

CodecNext ==
    \/ PackIntoMaxLen
    \/ EncodeCompact
    \/ UnpackFromSlice

CodecSpec == CodecInit /\ [][CodecNext]_vars

(***************************************************************************)
(* Properties.  A state with pc = "done" holds the instruction (tx), the   *)
(* store before it (pre), its result, and the store after it (accounts).   *)
(***************************************************************************)
Done == pc = "done"

\* the TokenMetadata record an account holds ([ok, val]; ok = FALSE when it holds none)
RecordAt(accs, k) == UnpackTokenMetadata(accs[k].data)
AttributesAt(accs, k) == UnpackTokenMetadataAttributes(accs[k].data)

IsImmutable(accs, k) == RecordAt(accs, k).ok /\ ~RecordAt(accs, k).val.update_authority.some

\* the mint the account in the mint position holds, when the token program owns it
ValidMint(accs, k) == accs[k].owner = TokenProgram /\ accs[k].mint.present
                        /\ accs[k].mint.is_initialized

MutatingOps == {"UpdateMetadata", "TransferAuthority", "CreateAttributes",
                "ReplaceAttributes", "MakeImmutable"}

\* C1 (as amended): once MakeImmutable has succeeded on a record, every later
\* UpdateMetadata, TransferAuthority, CreateAttributes, ReplaceAttributes and
\* MakeImmutable on it fails and writes nothing; the error is InvalidAuthority
\* when the authority account signs (for CreateAttributes: when the payer signs
\* too and the mint and attributes accounts are the record's mint and its
\* derived attributes address), and MissingRequiredSignature when the authority
\* account does not sign.
C1_ImmutableIsTerminal ==
    (Done /\ tx.op \in MutatingOps /\ tx.metadata \in made_immutable) =>
        /\ result # Ok
        /\ accounts = pre
        /\ (tx.op # "CreateAttributes" /\ tx.authority_signer) => result = "InvalidAuthority"
        /\ (tx.op = "CreateAttributes" /\ tx.authority_signer /\ tx.payer_signer
              /\ tx.mint = RecordAt(pre, tx.metadata).val.mint
              /\ tx.attributes = At(tx.mint)) => result = "InvalidAuthority"
        /\ ~tx.authority_signer => result = "MissingRequiredSignature"

C1_Witness ==
    /\ Done /\ tx.metadata \in made_immutable /\ tx.authority_signer
    /\ tx.op = "ReplaceAttributes" /\ tx.attributes = At(Mint1)
    /\ AttributesAt(pre, At(Mint1)).ok
    /\ result = "InvalidAuthority"

\* C1 as first stated: every later operation on the record, whoever signs it,
\* fails with InvalidAuthority
C1_Original ==
    (Done /\ tx.op \in MutatingOps /\ tx.metadata \in made_immutable /\ tx.authority_signer)
        => result = "InvalidAuthority"

\* C2: a metadata record whose update_authority is None is left exactly as it
\* is (authority and the four strings) by every instruction.
C2_Irreversible ==
    Done => \A m \in Mints : accounts[Md(m)] = pre[Md(m)] \/ ~IsImmutable(pre, Md(m))

C2_Witness ==
    /\ Done /\ tx.op = "TransferAuthority" /\ tx.authority_signer
    /\ IsImmutable(pre, tx.metadata) /\ tx.metadata = Md(Mint1)
    /\ IsImmutable(accounts, tx.metadata)

\* C3: CreateAttributes and ReplaceAttributes write the attributes account of a
\* mint only when the signer is the update authority stored in the record at
\* the mint's derived metadata address.
C3_AttributesInheritAuthority ==
    Done => \A m \in Mints :
        (tx.op \in {"CreateAttributes", "ReplaceAttributes"} /\ accounts[At(m)] # pre[At(m)])
            => /\ tx.authority_signer
               /\ RecordAt(pre, Md(m)).ok
               /\ RecordAt(pre, Md(m)).val.update_authority = Some(tx.authority)

\* C4: an instruction that returns an error leaves every account (owner,
\* buffer, existence) as it was before the call.
C4_FailureAtomicity == (Done /\ result # Ok) => accounts = pre

C4_Witness ==
    /\ Done /\ tx.op = "CreateMetadata" /\ result = "CpiFailed"
    /\ pre[tx.metadata] = Absent /\ accounts[tx.metadata] = Absent

\* a second CreateMetadata for a mint that has its record, signed by the mint's
\* valid authority
SecondCreate ==
    /\ Done /\ tx.op = "CreateMetadata" /\ tx.metadata = Md(tx.mint)
    /\ ValidMint(pre, tx.mint)
    /\ RecordAt(pre, Md(tx.mint)).ok
    /\ tx.authority_signer
    /\ tx.authority = (IF pre[tx.mint].mint.mint_authority.some
                       THEN pre[tx.mint].mint.mint_authority.val
                       ELSE pre[tx.mint].mint.freeze_authority.val)

\* C5 (as amended): after CreateMetadata has succeeded for a mint, every later
\* CreateMetadata for it signed by the valid authority fails and leaves the
\* record unchanged: with MetadataAlreadyExists when the four strings are within
\* their caps, with StringTooLong when one is not.
C5_AtMostOneCreate ==
    SecondCreate =>
        /\ accounts = pre
        /\ result = IF Len(tx.name) <= NAME_MAX_LEN /\ Len(tx.symbol) <= SYMBOL_MAX_LEN
                         /\ Len(tx.image) <= IMAGE_MAX_LEN
                         /\ Len(tx.description) <= DESCRIPTION_MAX_LEN
                    THEN "MetadataAlreadyExists" ELSE "StringTooLong"

C5_Witness == SecondCreate /\ tx.immutable /\ result = "MetadataAlreadyExists"

\* C5 as first stated: the second CreateMetadata fails with
\* MetadataAlreadyExists for any payload
C5_Original == SecondCreate => (result = "MetadataAlreadyExists" /\ accounts = pre)

\* C6: for a mint with mint_authority = Some(A), CreateMetadata succeeds only
\* when the authority account is A, and any other key (the freeze authority
\* too) is rejected with InvalidAuthority.
C6_MintAuthorityFirst ==
    (Done /\ tx.op = "CreateMetadata" /\ ValidMint(pre, tx.mint)
          /\ pre[tx.mint].mint.mint_authority.some) =>
        /\ result = Ok => tx.authority = pre[tx.mint].mint.mint_authority.val
        /\ tx.authority # pre[tx.mint].mint.mint_authority.val => result = "InvalidAuthority"

C6_Witness ==
    /\ Done /\ tx.op = "CreateMetadata" /\ tx.mint = Mint1 /\ tx.authority_signer
    /\ pre[Mint1].mint.freeze_authority = Some(tx.authority)
    /\ pre[Mint1].mint.mint_authority.some
    /\ result = "InvalidAuthority"

\* a CreateMetadata whose other inputs are in order: the derived address, strings
\* within the caps, creation possible, no record yet
OrderlyCreate ==
    /\ tx.metadata = Md(tx.mint)
    /\ Len(tx.name) <= NAME_MAX_LEN
    /\ tx.payer_signer /\ tx.system_program = SystemProgram /\ tx.cpi_ok
    /\ ~RecordAt(pre, Md(tx.mint)).ok

\* C7: for a mint with mint_authority = None and freeze_authority = Some(F),
\* CreateMetadata signed by F succeeds with F as resolved authority and any
\* other key fails with InvalidAuthority; for a mint with both None every
\* signer fails with InvalidAuthority.
C7_FreezeFallback ==
    (Done /\ tx.op = "CreateMetadata" /\ ValidMint(pre, tx.mint)
          /\ ~pre[tx.mint].mint.mint_authority.some) =>
        LET freeze == pre[tx.mint].mint.freeze_authority
        IN  /\ ~freeze.some => result = "InvalidAuthority"
            /\ (freeze.some /\ tx.authority # freeze.val) => result = "InvalidAuthority"
            /\ (freeze.some /\ tx.authority = freeze.val /\ tx.authority_signer
                  /\ OrderlyCreate) =>
                   /\ result = Ok
                   /\ RecordAt(accounts, Md(tx.mint)).val.update_authority =
                        (IF tx.immutable THEN None ELSE freeze)

C7_Witness ==
    /\ Done /\ tx.op = "CreateMetadata" /\ tx.mint = Mint2 /\ tx.authority = KeyF
    /\ result = Ok
    /\ RecordAt(accounts, Md(Mint2)).val.update_authority = Some(KeyF)

\* C8: an instruction whose authority account is not flagged as a signer
\* fails and writes nothing, also when its key is the required authority.
C8_KeyIsNotEnough == (Done /\ ~tx.authority_signer) => (result # Ok /\ accounts = pre)

C8_Witness ==
    /\ Done /\ tx.op = "TransferAuthority" /\ ~tx.authority_signer
    /\ RecordAt(pre, tx.metadata).val.update_authority = Some(tx.authority)
    /\ result = "MissingRequiredSignature"

\* C9: a successful CreateMetadata stores is_initialized = true, the supplied
\* mint, the four supplied strings, and update_authority = None when immutable,
\* otherwise Some(the mint authority, or the freeze authority when the mint
\* authority is None).
C9_CreateStoresRecord ==
    (Done /\ tx.op = "CreateMetadata" /\ result = Ok) =>
        LET stored == RecordAt(accounts, tx.metadata)
            mint == pre[tx.mint].mint
            resolved == IF mint.mint_authority.some THEN mint.mint_authority.val
                        ELSE mint.freeze_authority.val
        IN  /\ stored.ok
            /\ stored.val.is_initialized
            /\ stored.val.mint = tx.mint
            /\ stored.val.name = tx.name
            /\ stored.val.symbol = tx.symbol
            /\ stored.val.image = tx.image
            /\ stored.val.description = tx.description
            /\ stored.val.update_authority = (IF tx.immutable THEN None ELSE Some(resolved))

C9_Witness ==
    /\ Done /\ tx.op = "CreateMetadata" /\ result = Ok /\ tx.immutable
    /\ tx.mint = Mint1
    /\ RecordAt(accounts, Md(Mint1)).val.name = NameA
    /\ RecordAt(accounts, Md(Mint1)).val.update_authority = None

\* C10: UpdateMetadata on a record succeeds only when the signer is the
\* record's current update_authority; with update_authority None, or Some(A)
\* with A not the signer, it fails with InvalidAuthority and changes nothing.
C10_UpdateNeedsAuthority ==
    (Done /\ tx.op = "UpdateMetadata" /\ RecordAt(pre, tx.metadata).ok) =>
        LET current == RecordAt(pre, tx.metadata).val.update_authority
        IN  /\ result = Ok => (tx.authority_signer /\ current = Some(tx.authority))
            /\ (tx.authority_signer /\ current # Some(tx.authority)) =>
                   (result = "InvalidAuthority" /\ accounts = pre)

C10_Witness ==
    /\ Done /\ tx.op = "UpdateMetadata" /\ tx.authority_signer /\ tx.authority = KeyB
    /\ RecordAt(pre, tx.metadata).val.update_authority = Some(KeyA)
    /\ tx.new_name = Some(LongName)
    /\ result = "InvalidAuthority"

\* the record UpdateMetadata leaves: each supplied field replaced, the rest kept
Updated(old, t) ==
    [old EXCEPT !.name = IF t.new_name.some THEN t.new_name.val ELSE @,
                !.symbol = IF t.new_symbol.some THEN t.new_symbol.val ELSE @,
                !.image = IF t.new_image.some THEN t.new_image.val ELSE @,
                !.description = IF t.new_description.some THEN t.new_description.val ELSE @]

\* C11: a successful UpdateMetadata sets each supplied field to its supplied
\* value and leaves the fields not supplied, mint, is_initialized and
\* update_authority as before (no other account changes); with all four
\* fields absent the record is unchanged.
C11_UpdateFrame ==
    (Done /\ tx.op = "UpdateMetadata" /\ result = Ok) =>
        LET old == RecordAt(pre, tx.metadata)
            new == RecordAt(accounts, tx.metadata)
        IN  /\ old.ok /\ new.ok
            /\ new.val = Updated(old.val, tx)
            /\ new.val.mint = old.val.mint
            /\ new.val.is_initialized = old.val.is_initialized
            /\ new.val.update_authority = old.val.update_authority
            /\ \A k \in AccountKeys \ {tx.metadata} : accounts[k] = pre[k]
            /\ (~tx.new_name.some /\ ~tx.new_symbol.some /\ ~tx.new_image.some
                  /\ ~tx.new_description.some) => accounts = pre

C11_Witness ==
    /\ Done /\ tx.op = "UpdateMetadata" /\ result = Ok
    /\ tx.new_name = NoString /\ tx.new_image = Some(ImageB)
    /\ tx.new_description = NoString
    /\ RecordAt(pre, tx.metadata).val.name = NameB
    /\ RecordAt(pre, tx.metadata).val.image = ImageA
    /\ RecordAt(accounts, tx.metadata).val =
         [RecordAt(pre, tx.metadata).val EXCEPT !.image = ImageB]

\* the four strings an UpdateMetadata supplies are within their caps
SuppliedWithinCaps(t) ==
    ValidateOptionalFields(t.new_name, t.new_symbol, t.new_image, t.new_description) = Ok

\* a CreateAttributes whose accounts other than the authority are in order for
\* the record it names
AddressedCreateAttributes(t, record) ==
    t.payer_signer /\ t.attributes = At(t.mint) /\ record.mint = t.mint

\* C12: TransferAuthority signed by the current update authority succeeds for
\* any new_authority and stores update_authority = Some(new_authority), the
\* rest of the record kept; signed by any other key it fails and writes
\* nothing.  On a record whose authority is Some(N) (so after a transfer to N)
\* an operation signed by another key fails with InvalidAuthority, and
\* UpdateMetadata, TransferAuthority and MakeImmutable signed by N succeed.
C12_TransferAuthority ==
    (Done /\ tx.op \in MutatingOps /\ tx.authority_signer
          /\ RecordAt(pre, tx.metadata).ok) =>
        LET old == RecordAt(pre, tx.metadata).val
            current == old.update_authority
        IN  /\ (tx.op = "TransferAuthority" /\ current = Some(tx.authority)) =>
                   /\ result = Ok
                   /\ RecordAt(accounts, tx.metadata).val =
                        [old EXCEPT !.update_authority = Some(tx.new_authority)]
                   /\ \A k \in AccountKeys \ {tx.metadata} : accounts[k] = pre[k]
            /\ (tx.op = "TransferAuthority" /\ current # Some(tx.authority)) =>
                   (result # Ok /\ accounts = pre)
            /\ (current.some /\ current.val # tx.authority
                  /\ (tx.op = "CreateAttributes" => AddressedCreateAttributes(tx, old))) =>
                   result = "InvalidAuthority"
            /\ (current = Some(tx.authority) /\ tx.op = "UpdateMetadata"
                  /\ SuppliedWithinCaps(tx)) => result = Ok
            /\ (current = Some(tx.authority) /\ tx.op = "MakeImmutable") => result = Ok

\* the old authority KeyA is refused after the record was handed to KeyB
C12_Witness ==
    /\ Done /\ tx.op = "UpdateMetadata" /\ tx.authority = KeyA /\ tx.authority_signer
    /\ tx.metadata = Md(Mint1)
    /\ RecordAt(pre, Md(Mint1)).val.update_authority = Some(KeyB)
    /\ result = "InvalidAuthority"

\* C13: MakeImmutable succeeds exactly when the account holds an initialized
\* record whose update_authority is Some(A) and A signs, and then stores
\* update_authority = None with the rest of the record kept; signed on a record
\* whose authority is already None (created immutable or made immutable) it
\* fails with InvalidAuthority and writes nothing.
C13_MakeImmutable ==
    (Done /\ tx.op = "MakeImmutable") =>
        LET old == RecordAt(pre, tx.metadata)
        IN  /\ result = Ok <=>
                  (old.ok /\ old.val.is_initialized /\ tx.authority_signer
                     /\ old.val.update_authority = Some(tx.authority))
            /\ result = Ok =>
                  /\ RecordAt(accounts, tx.metadata).val =
                       [old.val EXCEPT !.update_authority = None]
                  /\ \A k \in AccountKeys \ {tx.metadata} : accounts[k] = pre[k]
            /\ (old.ok /\ ~old.val.update_authority.some /\ tx.authority_signer) =>
                  (result = "InvalidAuthority" /\ accounts = pre)

\* MakeImmutable on a record that was created with immutable = true
C13_Witness ==
    /\ Done /\ tx.op = "MakeImmutable" /\ tx.authority_signer
    /\ IsImmutable(pre, tx.metadata) /\ tx.metadata \notin made_immutable
    /\ result = "InvalidAuthority"

\* C14: after a successful ReplaceAttributes(data) the stored pair list is
\* data exactly, whatever the list was before; the attributes record's mint
\* and is_initialized are as before and no other account changes.
C14_ReplaceIsTotal ==
    (Done /\ tx.op = "ReplaceAttributes" /\ result = Ok) =>
        LET old == AttributesAt(pre, tx.attributes)
            new == AttributesAt(accounts, tx.attributes)
        IN  /\ old.ok /\ new.ok
            /\ new.val.data = tx.data
            /\ new.val.mint = old.val.mint
            /\ new.val.is_initialized = old.val.is_initialized
            /\ \A k \in AccountKeys \ {tx.attributes} : accounts[k] = pre[k]

\* a list of two pairs replaced by a list of one other pair
C14_Witness ==
    /\ Done /\ tx.op = "ReplaceAttributes" /\ result = Ok
    /\ AttributesAt(pre, tx.attributes).val.data = AttrList(2)
    /\ tx.data = OtherList
    /\ AttributesAt(accounts, tx.attributes).val.data = OtherList

\* C15: a key that is the update authority of mint M's metadata replaces the
\* attributes of another mint M' only when it is also the update authority
\* stored in the record at M''s derived metadata address.
C15_NoCrossMintReplace ==
    (Done /\ tx.op = "ReplaceAttributes" /\ result = Ok) =>
        \A m, n \in Mints :
            (m # n /\ RecordAt(pre, Md(m)).ok
                   /\ RecordAt(pre, Md(m)).val.update_authority = Some(tx.authority)
                   /\ accounts[At(n)] # pre[At(n)])
                => /\ RecordAt(pre, Md(n)).ok
                   /\ RecordAt(pre, Md(n)).val.update_authority = Some(tx.authority)

\* a CreateAttributes for a mint whose attributes record exists, its accounts
\* in order and signed by the payer and by the record's update authority
SecondCreateAttributes ==
    /\ Done /\ tx.op = "CreateAttributes" /\ tx.attributes = At(tx.mint)
    /\ AttributesAt(pre, At(tx.mint)).ok
    /\ tx.payer_signer /\ tx.authority_signer
    /\ RecordAt(pre, tx.metadata).ok
    /\ RecordAt(pre, tx.metadata).val.mint = tx.mint
    /\ RecordAt(pre, tx.metadata).val.update_authority = Some(tx.authority)

\* C16 (as amended): CreateAttributes succeeds only when the supplied metadata
\* record is initialized and names the supplied mint, the attributes account
\* is the mint's derived attributes address, the signer is the record's
\* update authority and the attributes record is not yet initialized, and it
\* then stores the supplied list; a second CreateAttributes for the mint
\* leaves the stored list unchanged and fails with MetadataAlreadyExists when
\* its list is valid, with the list's validation error when it is not.
C16_CreateAttributesOnce ==
    (Done /\ tx.op = "CreateAttributes") =>
        /\ result = Ok =>
              /\ RecordAt(pre, tx.metadata).ok
              /\ RecordAt(pre, tx.metadata).val.is_initialized
              /\ RecordAt(pre, tx.metadata).val.mint = tx.mint
              /\ tx.attributes = At(tx.mint)
              /\ tx.authority_signer
              /\ RecordAt(pre, tx.metadata).val.update_authority = Some(tx.authority)
              /\ ~AttributesAt(pre, tx.attributes).ok
              /\ AttributesAt(accounts, tx.attributes).val =
                    [is_initialized |-> TRUE, mint |-> tx.mint, data |-> tx.data]
        /\ SecondCreateAttributes =>
              /\ accounts = pre
              /\ result = IF ValidateAttributes(tx.data) = Ok
                          THEN "MetadataAlreadyExists" ELSE ValidateAttributes(tx.data)

C16_Witness ==
    /\ SecondCreateAttributes /\ result = "MetadataAlreadyExists"
    /\ tx.data = AttrList(2)
    /\ AttributesAt(accounts, tx.attributes).val.data = OtherList

\* C16 as first stated: the second CreateAttributes fails with
\* MetadataAlreadyExists for any list
C16_Original ==
    SecondCreateAttributes => (result = "MetadataAlreadyExists" /\ accounts = pre)

\* some string of a CreateMetadata is longer than its cap
CreateOverCap(t) ==
    \/ Len(t.name) > 256
    \/ Len(t.symbol) > 16
    \/ Len(t.image) > 512
    \/ Len(t.description) > 512

\* some supplied string of an UpdateMetadata is longer than its cap
UpdateOverCap(t) ==
    \/ t.new_name.some /\ Len(t.new_name.val) > 256
    \/ t.new_symbol.some /\ Len(t.new_symbol.val) > 16
    \/ t.new_image.some /\ Len(t.new_image.val) > 512
    \/ t.new_description.some /\ Len(t.new_description.val) > 512

StoredWithinCaps(r) ==
    Len(r.name) <= 256 /\ Len(r.symbol) <= 16 /\ Len(r.image) <= 512
      /\ Len(r.description) <= 512

\* a CreateMetadata at the mint's derived address, signed by the mint's valid
\* authority
AuthorisedCreate ==
    /\ tx.metadata = Md(tx.mint) /\ ValidMint(pre, tx.mint) /\ tx.authority_signer
    /\ (pre[tx.mint].mint.mint_authority.some \/ pre[tx.mint].mint.freeze_authority.some)
    /\ tx.authority = (IF pre[tx.mint].mint.mint_authority.some
                       THEN pre[tx.mint].mint.mint_authority.val
                       ELSE pre[tx.mint].mint.freeze_authority.val)

\* C17: CreateMetadata, and UpdateMetadata for each supplied field, fail with
\* StringTooLong exactly when some supplied string is longer than its cap
\* (name 256, symbol 16, image 512, description 512 bytes), the call being
\* otherwise in order; a string of exactly the cap length is accepted; every
\* record the program writes has its four fields within their caps.
C17_FieldCaps ==
    /\ (Done /\ tx.op = "CreateMetadata") =>
          /\ result = "StringTooLong" => CreateOverCap(tx)
          /\ CreateOverCap(tx) => (result # Ok /\ accounts = pre)
          /\ (CreateOverCap(tx) /\ AuthorisedCreate) => result = "StringTooLong"
          /\ (~CreateOverCap(tx) /\ AuthorisedCreate /\ tx.payer_signer
                /\ tx.system_program = SystemProgram /\ tx.cpi_ok
                /\ ~RecordAt(pre, tx.metadata).ok) => result = Ok
    /\ (Done /\ tx.op = "UpdateMetadata") =>
          /\ result = "StringTooLong" => UpdateOverCap(tx)
          /\ UpdateOverCap(tx) => (result # Ok /\ accounts = pre)
          /\ (tx.authority_signer /\ RecordAt(pre, tx.metadata).ok
                /\ RecordAt(pre, tx.metadata).val.update_authority = Some(tx.authority)) =>
                 result = IF UpdateOverCap(tx) THEN "StringTooLong" ELSE Ok
    /\ Done => \A k \in MetadataPdas :
          accounts[k] = pre[k]
            \/ (RecordAt(accounts, k).ok /\ StoredWithinCaps(RecordAt(accounts, k).val))

\* a record created with all four strings of exactly the cap length: its
\* encoding fills the account to the last byte
C17_Witness ==
    /\ Done /\ tx.op = "CreateMetadata" /\ result = Ok
    /\ Len(tx.name) = 256 /\ Len(tx.symbol) = 16
    /\ Len(tx.image) = 512 /\ Len(tx.description) = 512
    /\ RecordAt(accounts, tx.metadata).val.name = tx.name
    /\ RecordAt(accounts, tx.metadata).val.description = tx.description
    /\ Len(accounts[tx.metadata].data.bytes) = accounts[tx.metadata].data.len

EmptyPair(p) == Len(p[1]) = 0 \/ Len(p[2]) = 0
LongPair(p) == Len(p[1]) > 64 \/ Len(p[2]) > 240
BadPair(p) == EmptyPair(p) \/ LongPair(p)
WellFormedList(d) == Len(d) <= 32 /\ \A i \in 1..Len(d) : ~BadPair(d[i])

\* the error a list is rejected with: the count first, then the first bad pair,
\* its emptiness before its length
ListError(d) ==
    IF Len(d) > 32 THEN "TooManyAttributes"
    ELSE IF \A i \in 1..Len(d) : ~BadPair(d[i]) THEN Ok
    ELSE LET first == CHOOSE i \in 1..Len(d) : BadPair(d[i]) /\ \A j \in 1..(i - 1) : ~BadPair(d[j])
         IN  IF EmptyPair(d[first]) THEN "InvalidInstructionData" ELSE "StringTooLong"

\* a CreateAttributes or ReplaceAttributes whose accounts and signers are in
\* order, so that the handler comes to validate the list
ListValidated ==
    /\ Done /\ tx.op \in {"CreateAttributes", "ReplaceAttributes"}
    /\ tx.authority_signer
    /\ RecordAt(pre, tx.metadata).ok
    /\ RecordAt(pre, tx.metadata).val.update_authority = Some(tx.authority)
    /\ tx.op = "CreateAttributes" =>
          (tx.payer_signer /\ tx.attributes = At(tx.mint)
             /\ RecordAt(pre, tx.metadata).val.mint = tx.mint)
    /\ tx.op = "ReplaceAttributes" =>
          (tx.attributes = At(RecordAt(pre, tx.metadata).val.mint)
             /\ AttributesAt(pre, tx.attributes).ok)

\* C18 (as amended): CreateAttributes and ReplaceAttributes with a list of
\* more than 32 pairs, or with a pair that has an empty key or value or a key
\* longer than 64 or a value longer than 240, fail and leave the stored list
\* unchanged, wherever the bad pair is; the error is TooManyAttributes for the
\* count, otherwise that of the first bad pair, InvalidInstructionData when
\* it has an empty part and StringTooLong when not; every stored list has at
\* most 32 pairs, all with non-empty in-cap keys and values.
C18_AttributeValidation ==
    /\ (Done /\ tx.op \in {"CreateAttributes", "ReplaceAttributes"}) =>
          /\ ~WellFormedList(tx.data) => (result # Ok /\ accounts = pre)
          /\ result \in {"TooManyAttributes", "InvalidInstructionData", "StringTooLong"}
                => ~WellFormedList(tx.data)
    /\ (ListValidated /\ ~WellFormedList(tx.data)) => result = ListError(tx.data)
    /\ Done => \A k \in AttributesPdas :
          accounts[k] = pre[k]
            \/ (AttributesAt(accounts, k).ok /\ WellFormedList(AttributesAt(accounts, k).val.data))

\* a list whose third and last pair has a value past the cap is refused, and
\* the stored list of 32 pairs stays
C18_Witness ==
    /\ ListValidated /\ tx.op = "ReplaceAttributes"
    /\ Len(tx.data) = 3 /\ ~BadPair(tx.data[1]) /\ ~BadPair(tx.data[2])
    /\ Len(tx.data[3][2]) > 240
    /\ result = "StringTooLong"
    /\ Len(AttributesAt(accounts, tx.attributes).val.data) = 32

\* C18 as first stated: each kind of bad list has its own error, whatever
\* else is wrong with the list
C18_Original ==
    ListValidated =>
        /\ Len(tx.data) > 32 => result = "TooManyAttributes"
        /\ (\E i \in 1..Len(tx.data) : EmptyPair(tx.data[i])) => result = "InvalidInstructionData"
        /\ (\E i \in 1..Len(tx.data) : LongPair(tx.data[i])) => result = "StringTooLong"

(***************************************************************************)
(* Derived addresses on creation                                           *)
(***************************************************************************)
\* the checks of CreateMetadata that come before the address check pass: the
\* mint is an initialized token mint and its authority signed
MintAuthoritySigned ==
    /\ ValidMint(pre, tx.mint) /\ tx.authority_signer
    /\ (pre[tx.mint].mint.mint_authority.some \/ pre[tx.mint].mint.freeze_authority.some)
    /\ tx.authority = (IF pre[tx.mint].mint.mint_authority.some
                       THEN pre[tx.mint].mint.mint_authority.val
                       ELSE pre[tx.mint].mint.freeze_authority.val)

\* C19: a CreateMetadata whose metadata account is not derive("metadata", mint)
\* and a CreateAttributes whose attributes account is not
\* derive("attributes", mint) fail and change no account, with InvalidSeeds
\* when the checks made before the address check pass (mint and mint
\* authority for CreateMetadata, both signatures for CreateAttributes); the
\* only account either operation ever changes is the one at the derived
\* address.
C19_DerivedAddressOnly ==
    /\ (Done /\ tx.op = "CreateMetadata") =>
          /\ tx.metadata # Md(tx.mint) => (result # Ok /\ accounts = pre)
          /\ (tx.metadata # Md(tx.mint) /\ MintAuthoritySigned) => result = "InvalidSeeds"
          /\ \A k \in AccountKeys : accounts[k] = pre[k] \/ k = Md(tx.mint)
    /\ (Done /\ tx.op = "CreateAttributes") =>
          /\ tx.attributes # At(tx.mint) => (result # Ok /\ accounts = pre)
          /\ (tx.attributes # At(tx.mint) /\ tx.payer_signer /\ tx.authority_signer)
                => result = "InvalidSeeds"
          /\ \A k \in AccountKeys : accounts[k] = pre[k] \/ k = At(tx.mint)

\* the mint's authority asks for the record of its mint to be created in the
\* metadata account of another mint, which exists already, and is refused
C19_Witness ==
    /\ Done /\ tx.op = "CreateMetadata" /\ MintAuthoritySigned
    /\ tx.metadata # Md(tx.mint) /\ tx.metadata \in MetadataPdas
    /\ RecordAt(pre, tx.metadata).ok
    /\ result = "InvalidSeeds" /\ accounts = pre

(***************************************************************************)
(* Derived addresses on update, transfer and make-immutable                *)
(***************************************************************************)
OnRecordOps == {"UpdateMetadata", "TransferAuthority", "MakeImmutable"}

\* C20: UpdateMetadata, TransferAuthority and MakeImmutable reject the call
\* when the supplied metadata account holds a record and is not at
\* derive("metadata", record.mint), and leave every account as it was.
C20_DerivedAddressChecked ==
    (Done /\ tx.op \in OnRecordOps /\ RecordAt(pre, tx.metadata).ok
          /\ tx.metadata # Md(RecordAt(pre, tx.metadata).val.mint))
        => (result # Ok /\ accounts = pre)

(***************************************************************************)
(* Mints that are no mints                                                 *)
(***************************************************************************)
\* C21: CreateMetadata on a mint account that the token program does not own,
\* or that is not initialized, fails with InvalidMint and changes no account.
C21_InvalidMint ==
    (Done /\ tx.op = "CreateMetadata"
          /\ (pre[tx.mint].owner # TokenProgram \/ ~pre[tx.mint].mint.is_initialized))
        => (result = "InvalidMint" /\ accounts = pre)

(***************************************************************************)
(* Rotated mint authorities                                                *)
(***************************************************************************)
\* C22: once a mint's authority has been rotated from A to B, CreateMetadata
\* with A as authority fails with InvalidAuthority and writes nothing, and
\* CreateMetadata signed by B, its other inputs in order, succeeds and stores
\* update_authority = Some(B) (None when immutable is asked for).
C22_AuthorityAtCallTime ==
    (Done /\ tx.op = "CreateMetadata" /\ ValidMint(pre, tx.mint)
          /\ InitialAccounts[tx.mint].mint.mint_authority.some
          /\ pre[tx.mint].mint.mint_authority.some
          /\ pre[tx.mint].mint.mint_authority # InitialAccounts[tx.mint].mint.mint_authority) =>
        LET a == InitialAccounts[tx.mint].mint.mint_authority.val
            b == pre[tx.mint].mint.mint_authority.val
        IN  /\ tx.authority = a => (result = "InvalidAuthority" /\ accounts = pre)
            /\ (tx.authority = b /\ tx.authority_signer /\ OrderlyCreate) =>
                   /\ result = Ok
                   /\ RecordAt(accounts, Md(tx.mint)).val.update_authority =
                        (IF tx.immutable THEN None ELSE Some(b))

\* Mint1's authority is KeyB after a rotation, and KeyB has created its record
C22_Witness ==
    /\ Done /\ tx.op = "CreateMetadata" /\ tx.mint = Mint1
    /\ InitialAccounts[Mint1].mint.mint_authority = Some(KeyA)
    /\ pre[Mint1].mint.mint_authority = Some(KeyB)
    /\ tx.authority = KeyB /\ result = Ok
    /\ RecordAt(accounts, Md(Mint1)).val.update_authority = Some(KeyB)

(***************************************************************************)
(* Codec round trip                                                        *)
(***************************************************************************)
\* C23: unpacking the buffer a valid record was packed into returns the
\* record, for a buffer of the record's maximum size and for the compact
\* encoding followed by zero bytes; Pack::unpack returns it too for an
\* initialized record in a buffer of the maximum size.
C23_RoundTrip ==
    /\ codec.stage = "unpacked" => (codec.out.ok /\ codec.out.val = codec.record)
    /\ (codec.stage = "packed" /\ codec.record.is_initialized
           /\ codec.buf.len = RecordLen(codec.record)) =>
          IF IsMetadataRecord(codec.record)
          THEN UnpackTokenMetadata(codec.buf) = [ok |-> TRUE, val |-> codec.record]
          ELSE UnpackTokenMetadataAttributes(codec.buf) = [ok |-> TRUE, val |-> codec.record]

\* a record whose name ends in a zero byte and which has no update authority
\* (its encoding ends in a zero byte) has come back from its compact encoding
\* followed by 512 zero bytes
C23_Witness ==
    /\ codec.stage = "unpacked" /\ IsMetadataRecord(codec.record)
    /\ codec.record.name = ZeroEnded /\ codec.record.update_authority = None
    /\ codec.buf.len = Len(Encoded(codec.record)) + 512
    /\ codec.out.val = codec.record

(***************************************************************************)
(* Record sizes                                                            *)
(***************************************************************************)
\* the record a write of the instruction stores, given the record before it
WrittenMetadata(t, old) ==
    IF t.op = "CreateMetadata" THEN NewTokenMetadata(t, Some(t.authority))
    ELSE IF t.op = "UpdateMetadata" THEN Updated(old, t)
    ELSE [old EXCEPT !.update_authority = Some(t.new_authority)]

\* C24: a record whose strings and pairs pass validation serializes to at
\* most TOKEN_METADATA_MAX_LEN, resp. TOKEN_METADATA_ATTRIBUTES_MAX_LEN,
\* bytes; every account of the program keeps the size it was created with;
\* no write of any operation goes past the end of its buffer.
C24_MaxLenSuffices ==
    /\ Done => result # "Panic"
    /\ \A k \in MetadataPdas :
          accounts[k].owner = ProgramId => accounts[k].data.len = TOKEN_METADATA_MAX_LEN
    /\ \A k \in AttributesPdas :
          accounts[k].owner = ProgramId
            => accounts[k].data.len = TOKEN_METADATA_ATTRIBUTES_MAX_LEN
    /\ (Done /\ tx.op \in {"CreateMetadata", "UpdateMetadata", "TransferAuthority"}
              /\ result = Ok) =>
          /\ Len(BorshTokenMetadata(WrittenMetadata(tx, RecordAt(pre, tx.metadata).val)))
                <= TOKEN_METADATA_MAX_LEN
          /\ RecordAt(accounts, tx.metadata).val
                = WrittenMetadata(tx, RecordAt(pre, tx.metadata).val)
    /\ (Done /\ tx.op \in {"CreateAttributes", "ReplaceAttributes"}
              /\ WellFormedList(tx.data)) =>
          Len(BorshTokenMetadataAttributes(
                [is_initialized |-> TRUE, mint |-> Mint1, data |-> tx.data]))
            <= TOKEN_METADATA_ATTRIBUTES_MAX_LEN

\* a record with one-byte strings has been updated to a record whose four
\* strings are at their caps and which fills its buffer to the last byte
C24_Witness ==
    /\ Done /\ tx.op = "UpdateMetadata" /\ result = Ok
    /\ Len(RecordAt(pre, tx.metadata).val.name) = 1
    /\ Len(RecordAt(accounts, tx.metadata).val.name) = NAME_MAX_LEN
    /\ RecordAt(accounts, tx.metadata).val.update_authority.some
    /\ Len(BorshTokenMetadata(RecordAt(accounts, tx.metadata).val)) = TOKEN_METADATA_MAX_LEN
    /\ accounts[tx.metadata].data.len = TOKEN_METADATA_MAX_LEN

(***************************************************************************)
(* On-demand creation                                                      *)
(***************************************************************************)
IsCreate == tx.op \in {"CreateMetadata", "CreateAttributes"}
CreateTarget == IF tx.op = "CreateMetadata" THEN tx.metadata ELSE tx.attributes
CreateLen == IF tx.op = "CreateMetadata" THEN TOKEN_METADATA_MAX_LEN
             ELSE TOKEN_METADATA_ATTRIBUTES_MAX_LEN

\* C25: when the target account of a CreateMetadata or CreateAttributes is
\* not yet owned by the program, a successful call leaves it owned by the
\* program with the record's maximum size; the call succeeds only if the
\* system-program account is the system program and the payer signed; with
\* another system-program account the call fails and no account is created.
C25_OnDemandCreation ==
    (Done /\ IsCreate /\ pre[CreateTarget].owner # ProgramId) =>
        /\ result = Ok =>
              /\ accounts[CreateTarget].owner = ProgramId
              /\ accounts[CreateTarget].data.len = CreateLen
              /\ tx.system_program = SystemProgram /\ tx.payer_signer
        /\ (tx.system_program # SystemProgram \/ ~tx.payer_signer) =>
              (result # Ok /\ accounts = pre)
        /\ result # Ok => accounts[CreateTarget].owner # ProgramId

\* the attributes account of a mint did not exist and CreateAttributes has
\* created it
C25_Witness ==
    /\ Done /\ tx.op = "CreateAttributes" /\ result = Ok
    /\ pre[tx.attributes] = Absent
    /\ accounts[tx.attributes].owner = ProgramId
    /\ accounts[tx.attributes].data.len = TOKEN_METADATA_ATTRIBUTES_MAX_LEN

(***************************************************************************)
(* The mint of a record                                                    *)
(***************************************************************************)
\* C26: the record in the metadata account of a mint and the record in its
\* attributes account name that mint, from the write that creates them and
\* after every later write to the account.
C26_MintFieldFixed ==
    Done => \A m \in Mints :
        /\ accounts[Md(m)] = pre[Md(m)]
              \/ /\ RecordAt(accounts, Md(m)).ok
                 /\ RecordAt(accounts, Md(m)).val.mint = m
                 /\ RecordAt(pre, Md(m)).ok => RecordAt(pre, Md(m)).val.mint = m
        /\ accounts[At(m)] = pre[At(m)]
              \/ /\ AttributesAt(accounts, At(m)).ok
                 /\ AttributesAt(accounts, At(m)).val.mint = m
                 /\ AttributesAt(pre, At(m)).ok => AttributesAt(pre, At(m)).val.mint = m

\* the stored list of Mint2 has been replaced through a metadata account
\* that is not Mint2's, and the attributes record still names Mint2
C26_Witness ==
    /\ Done /\ tx.op = "ReplaceAttributes" /\ result = Ok
    /\ tx.attributes = At(Mint2) /\ tx.metadata # Md(Mint2)
    /\ accounts[At(Mint2)] # pre[At(Mint2)]
    /\ AttributesAt(pre, At(Mint2)).val.mint = Mint2
    /\ AttributesAt(accounts, At(Mint2)).val.mint = Mint2

(***************************************************************************)
(* Records stay                                                            *)
(***************************************************************************)
\* C27: an account whose first byte is non-zero before an instruction has a
\* non-zero first byte after it, and the same owner: no operation
\* uninitializes or removes a record.
C27_NeverDeleted ==
    \A k \in AccountKeys :
        AlreadyInitialized(pre[k].data) =>
            (AlreadyInitialized(accounts[k].data) /\ accounts[k].owner = pre[k].owner)

\* a stored list has been replaced by the empty list, and the attributes
\* record is still there
C27_Witness ==
    /\ Done /\ tx.op = "ReplaceAttributes" /\ result = Ok /\ tx.data = <<>>
    /\ AttributesAt(pre, tx.attributes).val.data # <<>>
    /\ AttributesAt(accounts, tx.attributes).ok
    /\ AttributesAt(accounts, tx.attributes).val.data = <<>>
    /\ AlreadyInitialized(accounts[tx.attributes].data)

(***************************************************************************)
(* Attribute lists are sequences                                           *)
(***************************************************************************)
\* C28: after a successful CreateAttributes or ReplaceAttributes the stored
\* list is the supplied list, pair for pair in the supplied order, repeated
\* keys and repeated pairs included; a well-formed list with repeated keys is
\* accepted like any other.
C28_SequenceSemantics ==
    /\ (Done /\ tx.op \in {"CreateAttributes", "ReplaceAttributes"} /\ result = Ok) =>
          AttributesAt(accounts, tx.attributes).val.data = tx.data
    /\ (ListValidated /\ tx.op = "ReplaceAttributes" /\ WellFormedList(tx.data))
          => result = Ok

\* a list of three pairs, the first and the third the same, has replaced a
\* stored list of the same pairs in another order
C28_Witness ==
    /\ Done /\ tx.op = "ReplaceAttributes" /\ result = Ok
    /\ Len(tx.data) = 3 /\ tx.data[1] = tx.data[3] /\ tx.data[1] # tx.data[2]
    /\ Len(AttributesAt(pre, tx.attributes).val.data) = 3
    /\ AttributesAt(pre, tx.attributes).val.data[2] = tx.data[1]
    /\ AttributesAt(pre, tx.attributes).val.data[1] = tx.data[2]
    /\ AttributesAt(accounts, tx.attributes).val.data = tx.data

(***************************************************************************)
(* The order of the checks                                                 *)
(***************************************************************************)
\* the authority account has signed and its key is not the one required: the
\* mint's authority for CreateMetadata, the update authority of the supplied
\* metadata record for the other operations
AuthorityViolated ==
    IF tx.op = "CreateMetadata"
    THEN ValidMint(pre, tx.mint) /\ tx.authority_signer /\ ~MintAuthoritySigned
    ELSE IF tx.op \in {"UpdateMetadata", "CreateAttributes", "ReplaceAttributes"}
    THEN /\ tx.authority_signer /\ RecordAt(pre, tx.metadata).ok
         /\ RecordAt(pre, tx.metadata).val.update_authority # Some(tx.authority)
         /\ tx.op = "CreateAttributes" =>
               (tx.payer_signer /\ RecordAt(pre, tx.metadata).val.mint = tx.mint)
    ELSE FALSE

\* a supplied string is over its cap, or the supplied list is not well formed
FieldViolated ==
    IF tx.op = "CreateMetadata" THEN CreateOverCap(tx)
    ELSE IF tx.op = "UpdateMetadata" THEN UpdateOverCap(tx)
    ELSE IF tx.op \in {"CreateAttributes", "ReplaceAttributes"} THEN ~WellFormedList(tx.data)
    ELSE FALSE

\* the supplied record account is not at the derived address
AddressViolated ==
    IF tx.op = "CreateMetadata" THEN tx.metadata # Md(tx.mint)
    ELSE IF tx.op = "CreateAttributes" THEN tx.attributes # At(tx.mint)
    ELSE IF tx.op = "ReplaceAttributes"
    THEN RecordAt(pre, tx.metadata).ok
           /\ tx.attributes # At(RecordAt(pre, tx.metadata).val.mint)
    ELSE FALSE

\* C30 (as amended): every check comes before the write, so a failed call
\* changes no account; the authority check comes before field validation in
\* every operation, and before the address check in CreateMetadata and
\* ReplaceAttributes, so a signed call with the wrong authority key that also
\* has a field over its cap, a bad list or a wrong address is rejected with
\* InvalidAuthority; only in CreateAttributes does the address check come
\* first, and such a call with a wrong address is rejected with InvalidSeeds.
C30_CheckOrder ==
    /\ (Done /\ result # Ok) => accounts = pre
    /\ (Done /\ AuthorityViolated /\ (FieldViolated \/ AddressViolated)) =>
          result = (IF tx.op = "CreateAttributes" /\ AddressViolated
                    THEN "InvalidSeeds" ELSE "InvalidAuthority")

\* an UpdateMetadata signed by a key that is not the update authority, with a
\* name over the cap, is refused for the authority
C30_Witness ==
    /\ Done /\ tx.op = "UpdateMetadata"
    /\ AuthorityViolated /\ FieldViolated
    /\ result = "InvalidAuthority" /\ accounts = pre

\* C30 as first stated: the address checks come first, then field
\* validation, then the authority check
C30_Original ==
    /\ (Done /\ AuthorityViolated /\ AddressViolated) => result = "InvalidSeeds"
    /\ (Done /\ AuthorityViolated /\ FieldViolated /\ ~AddressViolated) =>
          result \in {"StringTooLong", "TooManyAttributes", "InvalidInstructionData"}

(***************************************************************************)
(* The last check before the write                                         *)
(***************************************************************************)
\* the signer is the update authority of the record in the metadata account
AuthorityMatched ==
    /\ tx.authority_signer /\ RecordAt(pre, tx.metadata).ok
    /\ RecordAt(pre, tx.metadata).val.update_authority = Some(tx.authority)

\* the account at k is the program's, or the call can create it
CreationPossible(k) ==
    pre[k].owner = ProgramId
      \/ (tx.system_program = SystemProgram /\ tx.payer_signer /\ tx.cpi_ok)

\* every check of a create other than the already-initialized one passes
OtherCreateChecksPass ==
    IF tx.op = "CreateMetadata"
    THEN /\ MintAuthoritySigned /\ tx.metadata = Md(tx.mint) /\ ~CreateOverCap(tx)
         /\ CreationPossible(tx.metadata)
    ELSE /\ tx.payer_signer /\ AuthorityMatched /\ tx.attributes = At(tx.mint)
         /\ RecordAt(pre, tx.metadata).val.mint = tx.mint
         /\ WellFormedList(tx.data)
         /\ CreationPossible(tx.attributes)
         /\ pre[tx.attributes].owner = ProgramId =>
               pre[tx.attributes].data.len = TOKEN_METADATA_ATTRIBUTES_MAX_LEN

\* the target of a create is an account of the program that holds a record
TargetInitialized ==
    pre[CreateTarget].owner = ProgramId /\ AlreadyInitialized(pre[CreateTarget].data)

\* C31 (as amended): in CreateMetadata and CreateAttributes the last check
\* before the write is the already-initialized check: MetadataAlreadyExists is
\* returned only when every other check passes, and a create whose other
\* checks pass on a target that is not initialized writes.  In
\* TransferAuthority and MakeImmutable the last check is the authority match:
\* a call signed by the record's update authority writes.  In UpdateMetadata
\* the field caps are checked after the authority match, and in
\* ReplaceAttributes the derived address, the attributes record and the list
\* are: a call signed by the update authority fails on them with their error
\* and writes nothing, and writes when they pass.
C31_LastCheck ==
    /\ (Done /\ IsCreate) =>
          /\ result = "MetadataAlreadyExists" =>
                (OtherCreateChecksPass /\ TargetInitialized /\ accounts = pre)
          /\ OtherCreateChecksPass =>
                result = (IF TargetInitialized THEN "MetadataAlreadyExists" ELSE Ok)
    /\ (Done /\ tx.op \in {"TransferAuthority", "MakeImmutable"} /\ AuthorityMatched) =>
          (result = Ok /\ RecordAt(accounts, tx.metadata).ok)
    /\ (Done /\ tx.op = "UpdateMetadata" /\ AuthorityMatched) =>
          /\ result = (IF UpdateOverCap(tx) THEN "StringTooLong" ELSE Ok)
          /\ UpdateOverCap(tx) => accounts = pre
    /\ (Done /\ tx.op = "ReplaceAttributes" /\ AuthorityMatched) =>
          /\ result = (IF tx.attributes # At(RecordAt(pre, tx.metadata).val.mint)
                       THEN "InvalidSeeds"
                       ELSE IF ~AttributesAt(pre, tx.attributes).ok THEN "InvalidAccountData"
                       ELSE ListError(tx.data))
          /\ result # Ok => accounts = pre

\* an UpdateMetadata signed by the record's update authority is refused after
\* the authority match, for a name over the cap
C31_Witness ==
    /\ Done /\ tx.op = "UpdateMetadata" /\ AuthorityMatched
    /\ tx.metadata = Md(Mint1) /\ UpdateOverCap(tx)
    /\ result = "StringTooLong" /\ accounts = pre

\* C31 as first stated: in UpdateMetadata, ReplaceAttributes, TransferAuthority
\* and MakeImmutable nothing can fail once the signer has matched the authority
C31_Original ==
    (Done /\ tx.op \in {"UpdateMetadata", "ReplaceAttributes", "TransferAuthority",
                         "MakeImmutable"} /\ AuthorityMatched) => result = Ok

(***************************************************************************)
(* The bytes of a record account                                           *)
(***************************************************************************)
\* the buffer of n bytes that holds the encoding bs and zeros after it
EncodingThenZeros(n, bs) == [len |-> n, bytes |-> StripZeros(bs)]

\* C32: after every successful write the bytes of the written account are the
\* compact encoding of the record it now holds followed by zero bytes only:
\* nothing of a longer earlier value (a longer name, a longer list, a stored
\* authority) stays in the buffer, so two accounts that hold the same record
\* hold the same bytes.
C32_DeterministicBytes ==
    /\ Done => \A k \in MetadataPdas :
          accounts[k] = pre[k]
            \/ /\ RecordAt(accounts, k).ok
               /\ accounts[k].data = EncodingThenZeros(TOKEN_METADATA_MAX_LEN,
                                         BorshTokenMetadata(RecordAt(accounts, k).val))
    /\ Done => \A k \in AttributesPdas :
          accounts[k] = pre[k]
            \/ /\ AttributesAt(accounts, k).ok
               /\ accounts[k].data = EncodingThenZeros(TOKEN_METADATA_ATTRIBUTES_MAX_LEN,
                                         BorshTokenMetadataAttributes(AttributesAt(accounts, k).val))
    /\ (Done /\ tx.op = "UpdateMetadata" /\ result = Ok) =>
          accounts[tx.metadata].data =
             EncodingThenZeros(TOKEN_METADATA_MAX_LEN,
                 BorshTokenMetadata(Updated(RecordAt(pre, tx.metadata).val, tx)))
    /\ (Done /\ tx.op = "ReplaceAttributes" /\ result = Ok) =>
          accounts[tx.attributes].data =
             EncodingThenZeros(TOKEN_METADATA_ATTRIBUTES_MAX_LEN,
                 BorshTokenMetadataAttributes(
                     [is_initialized |-> TRUE, mint |-> AttributesAt(pre, tx.attributes).val.mint,
                      data |-> tx.data]))

\* a name of two bytes has been replaced by a name of one byte, and the
\* account holds fewer non-zero bytes than before
C32_Witness ==
    /\ Done /\ tx.op = "UpdateMetadata" /\ result = Ok /\ tx.metadata = Md(Mint1)
    /\ Len(RecordAt(pre, Md(Mint1)).val.name) = 2
    /\ Len(RecordAt(accounts, Md(Mint1)).val.name) = 1
    /\ Len(accounts[Md(Mint1)].data.bytes) < Len(pre[Md(Mint1)].data.bytes)

(***************************************************************************)
(* Attributes and their metadata                                           *)
(***************************************************************************)
\* C33: whenever the attributes account of a mint holds a record, the
\* metadata account of that mint holds a record too, and both records name
\* the mint.
C33_AttributesNeedMetadata ==
    \A m \in Mints :
        AttributesAt(accounts, At(m)).ok =>
            /\ RecordAt(accounts, Md(m)).ok
            /\ RecordAt(accounts, Md(m)).val.mint = m
            /\ AttributesAt(accounts, At(m)).val.mint = m

(***************************************************************************)
(* Accounts that hold no record                                            *)
(***************************************************************************)
\* C34: UpdateMetadata, TransferAuthority and MakeImmutable on a metadata
\* account whose first byte is zero or that does not exist, and
\* ReplaceAttributes on such an attributes account, fail and write nothing
\* (a signed UpdateMetadata, TransferAuthority or MakeImmutable with
\* InvalidAccountData); an account goes from holding no record to holding
\* one only as the target of a CreateMetadata or a CreateAttributes.
C34_InitializedTargetRequired ==
    /\ (Done /\ tx.op \in OnRecordOps /\ ~AlreadyInitialized(pre[tx.metadata].data)) =>
          /\ result # Ok /\ accounts = pre
          /\ tx.authority_signer => result = "InvalidAccountData"
    /\ (Done /\ tx.op = "ReplaceAttributes" /\ ~AlreadyInitialized(pre[tx.attributes].data)) =>
          (result # Ok /\ accounts = pre)
    /\ Done => \A k \in AccountKeys :
          (~AlreadyInitialized(pre[k].data) /\ AlreadyInitialized(accounts[k].data)) =>
             \/ tx.op = "CreateMetadata" /\ k = tx.metadata
             \/ tx.op = "CreateAttributes" /\ k = tx.attributes

\* the update authority of a mint's metadata asks for the attributes of the
\* mint to be replaced before they were ever created
C34_Witness ==
    /\ Done /\ tx.op = "ReplaceAttributes" /\ AuthorityMatched
    /\ tx.metadata = Md(Mint1) /\ tx.attributes = At(Mint1)
    /\ pre[At(Mint1)] = Absent
    /\ result = "InvalidAccountData" /\ accounts = pre

(***************************************************************************)
(* Which accounts an operation writes                                      *)
(***************************************************************************)
MetadataOps == {"CreateMetadata", "UpdateMetadata", "TransferAuthority", "MakeImmutable"}
AttributesOps == {"CreateAttributes", "ReplaceAttributes"}

\* C35: CreateAttributes and ReplaceAttributes change no account other than
\* the attributes account, so not the metadata account they read;
\* CreateMetadata, UpdateMetadata, TransferAuthority and MakeImmutable change
\* no attributes account and no account that holds an attributes record; no
\* operation changes a mint account, also when it is passed as the record
\* account.
C35_IndependentWrites ==
    Done =>
        /\ tx.op \in AttributesOps =>
              /\ accounts[tx.metadata] = pre[tx.metadata]
              /\ \A k \in AccountKeys \ {tx.attributes} : accounts[k] = pre[k]
        /\ tx.op \in MetadataOps =>
              \A k \in AccountKeys :
                  (k \in AttributesPdas \/ AttributesAt(pre, k).ok) => accounts[k] = pre[k]
        /\ \A k \in AccountKeys :
              (k \in Mints \/ pre[k].owner = TokenProgram) => accounts[k] = pre[k]

\* MakeImmutable has written the metadata record of a mint that has
\* attributes, and the attributes account is as it was
C35_Witness ==
    /\ Done /\ tx.op = "MakeImmutable" /\ result = Ok /\ tx.metadata = Md(Mint1)
    /\ accounts[Md(Mint1)] # pre[Md(Mint1)]
    /\ AttributesAt(pre, At(Mint1)).ok
    /\ accounts[At(Mint1)] = pre[At(Mint1)]

(***************************************************************************)
(* The SDK's validation and the program's                                  *)
(***************************************************************************)
PayloadErrors == {"StringTooLong", "TooManyAttributes", "InvalidInstructionData"}

\* what the handler of the instruction t returns on the store as it is
HandlerResult(t) ==
    IF t.op = "CreateMetadata" THEN process_create_metadata(ProgramId, accounts, t)
    ELSE IF t.op = "UpdateMetadata" THEN process_update_metadata(accounts, t)
    ELSE IF t.op = "CreateAttributes" THEN process_create_attributes(ProgramId, accounts, t)
    ELSE process_replace_attributes(ProgramId, accounts, t)

\* the program's field validation of the operation rejects the payload of t
OnChainRejects(t) ==
    IF t.op = "CreateMetadata"
    THEN ~FieldsWithinCaps(t.name, t.symbol, t.image, t.description)
    ELSE IF t.op = "UpdateMetadata"
    THEN ValidateOptionalFields(t.new_name, t.new_symbol, t.new_image, t.new_description) # Ok
    ELSE ValidateAttributes(t.data) # Ok

\* the checks the handler makes before it validates the payload pass
ReachesValidation ==
    IF tx.op = "CreateMetadata" THEN MintAuthoritySigned
    ELSE /\ AuthorityMatched
         /\ tx.op = "ReplaceAttributes" => AttributesAt(pre, tx.attributes).ok

\* C36: a builder of the SDK returns an error exactly when the program's
\* field validation of the operation rejects the payload: an instruction a
\* builder has emitted is never rejected by the program with StringTooLong,
\* TooManyAttributes or InvalidInstructionData, and a payload a builder has
\* refused would fail on chain, with one of these errors when the handler
\* comes to validate it.
C36_SdkMirrorsValidation ==
    /\ pc = "refused" =>
          /\ OnChainRejects(tx)
          /\ HandlerResult(tx).err # Ok
          /\ ReachesValidation => HandlerResult(tx).err \in PayloadErrors
    /\ pc \in {"pending", "done"} => ~OnChainRejects(tx)
    /\ Done => result \notin PayloadErrors
    /\ (Done /\ ReachesValidation /\ tx.op \in {"UpdateMetadata", "ReplaceAttributes"})
          => result = Ok

\* the builder has emitted an UpdateMetadata whose four strings are of exactly
\* the cap length, and the program has accepted it
C36_Witness ==
    /\ Done /\ tx.op = "UpdateMetadata" /\ result = Ok
    /\ Len(tx.new_name.val) = NAME_MAX_LEN /\ Len(tx.new_symbol.val) = SYMBOL_MAX_LEN
    /\ Len(tx.new_image.val) = IMAGE_MAX_LEN
    /\ Len(tx.new_description.val) = DESCRIPTION_MAX_LEN
    /\ update_metadata_ix(ProgramId,
           [mint |-> Mint1, update_authority |-> tx.authority, name |-> tx.new_name,
            symbol |-> tx.new_symbol, image |-> tx.new_image,
            description |-> tx.new_description]) = [ok |-> TRUE, ix |-> tx]

(***************************************************************************)
(* The update authority and the mint's authorities                         *)
(***************************************************************************)
\* the mint of the record in the metadata account has had its mint authority
\* rotated or cleared since the ledger's first state
MintAuthorityChanged ==
    /\ RecordAt(pre, tx.metadata).ok
    /\ RecordAt(pre, tx.metadata).val.mint \in Mints
    /\ pre[RecordAt(pre, tx.metadata).val.mint].mint.mint_authority
         # InitialAccounts[RecordAt(pre, tx.metadata).val.mint].mint.mint_authority

\* the call would succeed on the record as far as everything but the
\* authority goes
OtherwiseInOrder ==
    CASE tx.op = "UpdateMetadata" -> SuppliedWithinCaps(tx)
      [] tx.op = "CreateAttributes" ->
            /\ AddressedCreateAttributes(tx, RecordAt(pre, tx.metadata).val)
            /\ WellFormedList(tx.data) /\ CreationPossible(tx.attributes)
            /\ ~AttributesAt(pre, tx.attributes).ok
      [] tx.op = "ReplaceAttributes" ->
            /\ tx.attributes = At(RecordAt(pre, tx.metadata).val.mint)
            /\ AttributesAt(pre, tx.attributes).ok /\ WellFormedList(tx.data)
      [] OTHER -> TRUE

\* C37: after the mint authority of a record's mint has been rotated or
\* cleared, UpdateMetadata, TransferAuthority, MakeImmutable, CreateAttributes
\* and ReplaceAttributes still go by the stored update_authority alone: a
\* signer that is not the stored update authority is refused with
\* InvalidAuthority and writes nothing, the mint's current authority and its
\* freeze authority included, and the stored update authority still succeeds.
C37_IndependentOfMintAuthority ==
    (Done /\ tx.op \in MutatingOps /\ tx.authority_signer /\ MintAuthorityChanged) =>
        LET record == RecordAt(pre, tx.metadata).val
        IN  /\ record.update_authority # Some(tx.authority) =>
                  /\ result # Ok /\ accounts = pre
                  /\ (tx.op = "CreateAttributes" => AddressedCreateAttributes(tx, record))
                        => result = "InvalidAuthority"
            /\ (record.update_authority = Some(tx.authority) /\ OtherwiseInOrder) =>
                  result = Ok

\* Mint1's mint authority is now KeyB, the record's update authority is still
\* KeyA: KeyB is refused
C37_Witness ==
    /\ Done /\ tx.op = "UpdateMetadata" /\ tx.authority_signer /\ tx.authority = KeyB
    /\ tx.metadata = Md(Mint1) /\ MintAuthorityChanged
    /\ pre[Mint1].mint.mint_authority = Some(KeyB)
    /\ RecordAt(pre, Md(Mint1)).val.update_authority = Some(KeyA)
    /\ result = "InvalidAuthority" /\ accounts = pre

(***************************************************************************)
(* What TransferAuthority and MakeImmutable leave alone                    *)
(***************************************************************************)
\* C38: a successful TransferAuthority or MakeImmutable changes the record's
\* update_authority (to Some(new_authority), resp. None) and nothing else:
\* is_initialized, mint, name, symbol, image and description are as before
\* the call.
C38_OnlyAuthorityChanges ==
    (Done /\ tx.op \in {"TransferAuthority", "MakeImmutable"} /\ result = Ok) =>
        LET old == RecordAt(pre, tx.metadata).val
            new == RecordAt(accounts, tx.metadata)
        IN  /\ new.ok
            /\ new.val.is_initialized = old.is_initialized
            /\ new.val.mint = old.mint
            /\ new.val.name = old.name
            /\ new.val.symbol = old.symbol
            /\ new.val.image = old.image
            /\ new.val.description = old.description
            /\ new.val.update_authority =
                  (IF tx.op = "TransferAuthority" THEN Some(tx.new_authority) ELSE None)

\* a record whose name and image had been updated was made immutable, and
\* has the updated name and image still
C38_Witness ==
    /\ Done /\ tx.op = "MakeImmutable" /\ result = Ok
    /\ RecordAt(pre, tx.metadata).val.name = NameB
    /\ RecordAt(pre, tx.metadata).val.image = ImageB
    /\ RecordAt(pre, tx.metadata).val.update_authority.some
    /\ RecordAt(accounts, tx.metadata).val.name = NameB
    /\ RecordAt(accounts, tx.metadata).val.image = ImageB
    /\ RecordAt(accounts, tx.metadata).val.update_authority = None

(***************************************************************************)
(* Records created immutable                                               *)
(***************************************************************************)
\* the record of mint m has no update authority and no MakeImmutable has run
\* on it: it was created with immutable = true
CreatedImmutable(accs, m) == IsImmutable(accs, Md(m)) /\ Md(m) \notin made_immutable

\* C39: for a mint whose metadata was created with immutable = true, a
\* CreateAttributes on the mint's metadata and attributes accounts fails with
\* InvalidAuthority whoever signs and whatever the list, and the mint's
\* attributes account never holds a record.
C39_NoAttributesForImmutable ==
    /\ (Done /\ tx.op = "CreateAttributes" /\ tx.mint \in Mints
              /\ tx.metadata = Md(tx.mint) /\ tx.attributes = At(tx.mint)
              /\ tx.payer_signer /\ tx.authority_signer
              /\ CreatedImmutable(pre, tx.mint)) =>
          (result = "InvalidAuthority" /\ accounts = pre)
    /\ pc = "idle" => \A m \in Mints :
          CreatedImmutable(accounts, m) => ~AttributesAt(accounts, At(m)).ok

(***************************************************************************)
(* The empty list                                                          *)
(***************************************************************************)
\* the attributes record the instruction addresses holds the empty list
StoredListEmpty ==
    AttributesAt(pre, tx.attributes).ok /\ AttributesAt(pre, tx.attributes).val.data = <<>>

\* C40: CreateAttributes and ReplaceAttributes with the empty list pass
\* validation and store an initialized record with the empty list; a record
\* that holds the empty list is a record like any other: a CreateAttributes
\* for its mint with a valid list fails with MetadataAlreadyExists and a
\* ReplaceAttributes with a valid list succeeds.
C40_EmptyListIsValid ==
    /\ (ListValidated /\ tx.data = <<>>) =>
          /\ result \notin PayloadErrors
          /\ (tx.op = "ReplaceAttributes"
                 \/ (CreationPossible(tx.attributes) /\ ~AttributesAt(pre, tx.attributes).ok)) =>
                /\ result = Ok
                /\ AttributesAt(accounts, tx.attributes).ok
                /\ AttributesAt(accounts, tx.attributes).val.is_initialized
                /\ AttributesAt(accounts, tx.attributes).val.data = <<>>
                /\ AlreadyInitialized(accounts[tx.attributes].data)
    /\ (ListValidated /\ StoredListEmpty /\ WellFormedList(tx.data)) =>
          IF tx.op = "CreateAttributes"
          THEN result = "MetadataAlreadyExists" /\ accounts = pre
          ELSE result = Ok /\ AttributesAt(accounts, tx.attributes).val.data = tx.data

\* a record that holds the empty list has been given a list of two pairs by
\* ReplaceAttributes
C40_Witness ==
    /\ ListValidated /\ StoredListEmpty /\ tx.op = "ReplaceAttributes"
    /\ tx.data = AttrList(2) /\ result = Ok
    /\ AttributesAt(accounts, tx.attributes).val.data = AttrList(2)

====
